---------------------------- MODULE Spec2Model ----------------------------
(***************************************************************************)
(* A model of the command-line German coach (src/main.py): the main menu,  *)
(* the vocabulary trainer, the exam menu and its four practice loops, the  *)
(* session statistics PROGRESS, the oracle call chat_with_ai and the       *)
(* parsers of the oracle's feedback.                                       *)
(*                                                                         *)
(* A Python str is modelled as a sequence of one-character strings, so     *)
(* that strip(), lower(), upper() and the regular expressions act on the   *)
(* characters as they do in the program.                                   *)
(***************************************************************************)
EXTENDS Naturals, Sequences, FiniteSets, TLC

(***************************************************************************)
(* Bounds of the model.                                                    *)
(***************************************************************************)
\* Completed evaluation rounds per session (the program's loops are unbounded).
MaxRounds == 2
\* Length of the strings given to normalize_level under SpecFn.
MaxLevelLen == 2

(***************************************************************************)
(* Characters and strings.                                                 *)
(***************************************************************************)
Min(S) == CHOOSE m \in S : \A n \in S : m <= n
Max(S) == CHOOSE m \in S : \A n \in S : m >= n

\* The characters str.strip() removes and the regular expressions' \s matches.
Whitespace == {" ", "\t", "\n"}
\* The regular expressions' \d.
Digits == {"0", "1", "2", "3", "4", "5", "6", "7", "8", "9"}

LowerLetters == <<"a", "b", "c", "d", "e", "f", "g", "h", "i", "j", "k", "l", "m",
                  "n", "o", "p", "q", "r", "s", "t", "u", "v", "w", "x", "y", "z">>
UpperLetters == <<"A", "B", "C", "D", "E", "F", "G", "H", "I", "J", "K", "L", "M",
                  "N", "O", "P", "Q", "R", "S", "T", "U", "V", "W", "X", "Y", "Z">>

LowerChar(c) ==
    IF \E i \in 1..26 : UpperLetters[i] = c
    THEN LowerLetters[CHOOSE i \in 1..26 : UpperLetters[i] = c]
    ELSE c

UpperChar(c) ==
    IF \E i \in 1..26 : LowerLetters[i] = c
    THEN UpperLetters[CHOOSE i \in 1..26 : LowerLetters[i] = c]
    ELSE c

RECURSIVE lower(_)
\* str.lower()
lower(s) == IF s = <<>> THEN <<>> ELSE <<LowerChar(Head(s))>> \o lower(Tail(s))

RECURSIVE upper(_)
\* str.upper()
upper(s) == IF s = <<>> THEN <<>> ELSE <<UpperChar(Head(s))>> \o upper(Tail(s))

\* str.strip(): the string without its leading and trailing whitespace.
strip(s) ==
    LET keep == {i \in 1..Len(s) : s[i] \notin Whitespace}
    IN  IF keep = {} THEN <<>> ELSE SubSeq(s, Min(keep), Max(keep))

\* text has the literal lit at index i.
StartsAt(text, i, lit) ==
    /\ i >= 1
    /\ i + Len(lit) - 1 <= Len(text)
    /\ SubSeq(text, i, i + Len(lit) - 1) = lit

\* lit occurs in text.
Contains(text, lit) == \E i \in 1..Len(text) : StartsAt(text, i, lit)

\* The first index from i on that holds no whitespace (Len(text) + 1 if none).
SkipWs(text, i) ==
    LET rest == {j \in i..Len(text) : text[j] \notin Whitespace}
    IN  IF rest = {} THEN Len(text) + 1 ELSE Min(rest)

\* The first index from i on that holds no digit (Len(text) + 1 if none).
SkipDigits(text, i) ==
    LET rest == {j \in i..Len(text) : text[j] \notin Digits}
    IN  IF rest = {} THEN Len(text) + 1 ELSE Min(rest)

\* The first index from i on that holds a line break (Len(text) + 1 if none).
LineEnd(text, i) ==
    LET rest == {j \in i..Len(text) : text[j] = "\n"}
    IN  IF rest = {} THEN Len(text) + 1 ELSE Min(rest)

\* Python's Optional[str].
None == [some |-> FALSE, value |-> <<>>]
Some(v) == [some |-> TRUE, value |-> v]

sSCORE == <<"S", "C", "O", "R", "E", ":">>
sLEVEL == <<"L", "E", "V", "E", "L", ":">>
sWORD == <<"W", "O", "R", "D", ":">>
sSENTENCE == <<"S", "E", "N", "T", "E", "N", "C", "E", ":">>
sHINT == <<"H", "I", "N", "T", ":">>
sCorrect == <<"c", "o", "r", "r", "e", "c", "t">>
sPartiallyCorrect == <<"p", "a", "r", "t", "i", "a", "l", "l", "y", "_", "c", "o", "r", "r", "e", "c", "t">>
sIncorrect == <<"i", "n", "c", "o", "r", "r", "e", "c", "t">>
sQ == <<"q">>
sQuit == <<"q", "u", "i", "t">>
sExit == <<"e", "x", "i", "t">>
SP == <<" ">>
NL == <<"\n">>

A0 == <<"A", "0">>
A1 == <<"A", "1">>
A2 == <<"A", "2">>
B1 == <<"B", "1">>
B2 == <<"B", "2">>
C1 == <<"C", "1">>

(***************************************************************************)
(* The parsers of the oracle's feedback.                                   *)
(***************************************************************************)
\* The alternation (a|b|...) tried at index j, in the order written.
RECURSIVE FirstAlternative(_, _, _)
FirstAlternative(text, j, alts) ==
    IF alts = <<>> THEN None
    ELSE IF StartsAt(text, j, Head(alts)) THEN Some(Head(alts))
    ELSE FirstAlternative(text, j, Tail(alts))

\* SearchLiteral taking the last match in the text, not the first.
SearchLiteral_LastMatch(text, tag, alts) ==
    LET group(i) == FirstAlternative(text, SkipWs(text, i + Len(tag)), alts)
        hits == {i \in 1..Len(text) : StartsAt(text, i, tag) /\ group(i).some}
    IN  IF hits = {} THEN None ELSE group(Max(hits))

\* re.search(tag \s* (alts)): the leftmost index of tag after which, behind any
\* whitespace, one of alts stands; group(1) is that alternative.
SearchLiteral(text, tag, alts) ==
    LET group(i) == FirstAlternative(text, SkipWs(text, i + Len(tag)), alts)
        hits == {i \in 1..Len(text) : StartsAt(text, i, tag) /\ group(i).some}
    IN  IF hits = {} THEN None ELSE group(Min(hits))

parse_vocab_score(feedback) ==
    SearchLiteral(feedback, sSCORE, <<sCorrect, sPartiallyCorrect, sIncorrect>>)

parse_exam_level(feedback) ==
    SearchLiteral(feedback, sLEVEL, <<B1, B2, C1>>)

\* (\d+/\d+) at index j: both runs of digits greedy.
FractionAt(text, j) ==
    LET a == SkipDigits(text, j)
        b == SkipDigits(text, a + 1)
    IN  IF a > j /\ a <= Len(text) /\ text[a] = "/" /\ b > a + 1
        THEN Some(SubSeq(text, j, b - 1))
        ELSE None

\* parse_exam_score with a check of bounds: no score above its maximum, no
\* maximum of 0 (scores of one digit each).
parse_exam_score_Validated(feedback) ==
    LET group(i) == FractionAt(feedback, SkipWs(feedback, i + Len(sSCORE)))
        hits == {i \in 1..Len(feedback) : StartsAt(feedback, i, sSCORE) /\ group(i).some}
        found == group(Min(hits)).value
        Value(d) == CHOOSE n \in 0..9 : <<"0", "1", "2", "3", "4", "5", "6", "7", "8", "9">>[n + 1] = d
    IN  IF hits = {} THEN None
        ELSE IF Len(found) = 3 /\ (found[3] = "0" \/ Value(found[1]) > Value(found[3]))
             THEN None
             ELSE Some(found)

parse_exam_score(feedback) ==
    LET group(i) == FractionAt(feedback, SkipWs(feedback, i + Len(sSCORE)))
        hits == {i \in 1..Len(feedback) : StartsAt(feedback, i, sSCORE) /\ group(i).some}
    IN  IF hits = {} THEN None ELSE group(Min(hits))

\* re.search(tag \s* (.+)) and then group(1).strip(), "" without a match: \s* is
\* greedy and gives back whitespace until a character other than a line break
\* follows it; (.+) runs to the end of that line.
ExtractField(text, tag) ==
    LET starts(i) == {g \in (i + Len(tag))..SkipWs(text, i + Len(tag)) :
                         g <= Len(text) /\ text[g] # "\n"}
        hits == {i \in 1..Len(text) : StartsAt(text, i, tag) /\ starts(i) # {}}
    IN  IF hits = {} THEN <<>>
        ELSE LET g == Max(starts(Min(hits)))
             IN  strip(SubSeq(text, g, LineEnd(text, g) - 1))

\* normalize_level without the mapping of A0.
normalize_level_Unmapped(level) == upper(level)

\* normalize_level: A0 is sent to the oracle as A1.
normalize_level(level) ==
    IF upper(level) = A0 THEN A1 ELSE upper(level)

(***************************************************************************)
(* The oracle requests.  A request has three text segments; a segment is a *)
(* sequence of pieces: a fixed text of the program, given as a string      *)
(* (lit) or by its characters (txt), or a value the program puts into the  *)
(* text (slot names which: level, task, answer, word, sentence).           *)
(***************************************************************************)
Lit(s) == [slot |-> "literal", lit |-> s, txt |-> <<>>]
Chars(t) == [slot |-> "literal", lit |-> "", txt |-> t]
Slot(name, t) == [slot |-> name, lit |-> "", txt |-> t]

\* The persona preamble; its second line names the level A0.
SYSTEM_PROMPT ==
    << Lit("You are a friendly, supportive German teacher helping a learner prepare for Goethe B2 and C1 exams and build vocabulary from "),
       Chars(A0),
       Lit(" to C1. Your style: ...") >>

NoRequest == [call |-> "none", persona |-> <<>>, system |-> <<>>, user |-> <<>>]

\* The messages chat_with_ai sends for one call.
Request(call, extra_instructions, user_message) ==
    [call |-> call, persona |-> SYSTEM_PROMPT,
     system |-> extra_instructions, user |-> user_message]

generate_de_to_en_task(level) ==
    Request("task",
        << Lit("You are creating one vocabulary exercise for CEFR level "),
           Slot("level", level), Lit(".") >>,
        << Lit("Choose ONE useful German word or short phrase appropriate for CEFR level "),
           Slot("level", level),
           Lit(". Requirements: ... Output format exactly: WORD: <...> SENTENCE: <...> No extra comments or explanation.") >>)

generate_en_to_de_task(level) ==
    Request("task",
        << Lit("You are creating one vocabulary exercise for a German learner at CEFR level "),
           Slot("level", level), Lit(".") >>,
        << Lit("Choose ONE useful everyday ENGLISH word or short phrase for a learner around level "),
           Slot("level", level),
           Lit(". The learner will translate it into GERMAN. Output format exactly: WORD: <...> HINT: <...> Do NOT include the German translation.") >>)

evaluate_de_to_en(german_word, german_sentence, answer) ==
    Request("eval",
        << Lit("You are evaluating a German->English vocabulary translation.") >>,
        << Lit("German word: "), Slot("word", german_word),
           Lit(" Example sentence: "), Slot("sentence", german_sentence),
           Lit(" Learner's English translation: "), Slot("answer", answer),
           Lit(" Tasks: ... At the very end, on a new line, output exactly ONE of: SCORE: correct SCORE: partially_correct SCORE: incorrect") >>)

evaluate_en_to_de(english_word, answer) ==
    Request("eval",
        << Lit("You are evaluating an English->German vocabulary translation.") >>,
        << Lit("English word/phrase: "), Slot("word", english_word),
           Lit(" Learner's German translation: "), Slot("answer", answer),
           Lit(" Tasks: ... At the very end, on a new line, output exactly ONE of: SCORE: correct SCORE: partially_correct SCORE: incorrect") >>)

listening_task(level) ==
    Request("task",
        << Lit("You are creating a Goethe-"), Slot("level", level),
           Lit(" style listening comprehension task.") >>,
        << Lit("Create ONE listening comprehension task similar to Goethe "),
           Slot("level", level),
           Lit(". Requirements: ... Format exactly: AUDIO: <text> QUESTIONS: ... No extra explanation.") >>)

listening_evaluation(level, the_task, answer) ==
    Request("eval",
        << Lit("You are evaluating a Goethe-"), Slot("level", level),
           Lit("-style listening task.") >>,
        << Lit("Here is the listening task: "), Slot("task", the_task),
           Lit(" Learner's answers: "), Slot("answer", answer),
           Lit(" 1) ... 4) At the very end, on a new line, output the score as: SCORE: X/Y ...") >>)

reading_task(level) ==
    Request("task",
        << Lit("You are creating a Goethe-"), Slot("level", level),
           Lit(" style reading comprehension task.") >>,
        << Lit("Create ONE reading comprehension task similar to Goethe "),
           Slot("level", level),
           Lit(". Requirements: ... Format: TEXT: <text> QUESTIONS: ...") >>)

reading_evaluation(level, the_task, answer) ==
    Request("eval",
        << Lit("You are evaluating a Goethe-"), Slot("level", level),
           Lit("-style reading task.") >>,
        << Lit("Here is the reading task: "), Slot("task", the_task),
           Lit(" Learner's answers: "), Slot("answer", answer),
           Lit(" 1) ... 3) At the very end, on a new line, output an approximate score as: SCORE: X/Y ...") >>)

writing_task(level) ==
    Request("task",
        << Lit("Create one Goethe-style "), Slot("level", level),
           Lit(" writing task.") >>,
        << Lit("Create ONE "), Slot("level", level),
           Lit(" writing task similar to the Goethe exam. ...") >>)

writing_evaluation(level, the_task, answer) ==
    Request("eval",
        << Lit("You are evaluating a Goethe "), Slot("level", level),
           Lit(" writing task.") >>,
        << Lit("Task: "), Slot("task", the_task),
           Lit(" Learner's text: "), Slot("answer", answer),
           Lit(" Give feedback in German ... At the very end, on a new line, output exactly ONE of: LEVEL:B1 LEVEL:B2 LEVEL:C1") >>)

speaking_task(level) ==
    Request("task",
        << Lit("Create one Goethe-style "), Slot("level", level),
           Lit(" speaking task.") >>,
        << Lit("Create ONE "), Slot("level", level),
           Lit(" speaking task similar to the Goethe exam. ...") >>)

speaking_evaluation(level, the_task, answer) ==
    Request("eval",
        << Lit("You are evaluating a Goethe "), Slot("level", level),
           Lit(" speaking-style answer.") >>,
        << Lit("Task: "), Slot("task", the_task),
           Lit(" Learner's answer: "), Slot("answer", answer),
           Lit(" Give feedback in German ... At the very end, on a new line, output exactly ONE of: LEVEL:B1 LEVEL:B2 LEVEL:C1") >>)

(***************************************************************************)
(* What the user types and what the oracle returns.                        *)
(***************************************************************************)
\* Lines typed at a menu prompt.
MenuInputs ==
    { <<"1">>, <<"2">>, <<"3">>, <<"4">>, <<"0">>, <<" ", "2">>, <<"9">>, <<>> }

\* Lines typed at a level prompt.
LevelInputs ==
    { A0, <<"a", "0">>, A1, B1, <<" ", "b", "1">>, B2, C1, <<"C", "2">>, <<>> }

\* Lines typed at the direction prompt.
DirectionInputs == { <<"1">>, <<"2">>, <<"2", " ">>, <<"3">>, <<>> }

\* Lines typed at an answer prompt.
AnswerInputs ==
    { <<"q">>, <<"Q">>, <<"Q", "U", "I", "T">>, <<"E", "x", "i", "t">>, <<" ", "q">>,
      <<>>, <<" ", "a", "B", " ">>, <<"q", "q">> }

\* Contents the oracle returns for a task request.
TaskContents ==
    { sWORD \o <<" ", "a", "b", "\n">> \o sSENTENCE \o <<" ", "c", " ", "d">>,
      <<" ", "c", "d", "\n">> }

\* Contents the oracle returns for an evaluation request.
FeedbackContents ==
    { sSCORE \o SP \o sCorrect,
      <<"o", "k", "\n">> \o sSCORE \o SP \o sPartiallyCorrect \o NL,
      sSCORE \o sIncorrect,
      sSCORE \o SP \o sIncorrect \o NL \o sSCORE \o SP \o sCorrect,
      <<"g", "u", "t">>,
      sSCORE \o <<" ", "3", "/", "5">>,
      sLEVEL \o B2 }

(***************************************************************************)
(* The state.                                                              *)
(***************************************************************************)
VARIABLES
    pc,            \* where the program stands
    kind,          \* the function running: none (main), vocab, exam, or a practice loop
    level,         \* vocab_mode's and exam_mode's level
    mapped_level,  \* vocab_mode's mapped_level
    direction,     \* vocab_mode's direction
    task,          \* the loop's task
    user_answer,   \* the loop's user_answer
    feedback,      \* the loop's feedback
    PROGRESS,      \* the session statistics
    stdin,         \* history: the line last read by input() and the prompt it answered
    out,           \* history: the status line last printed
    lastRequest,   \* history: the request last given to the oracle
    oracleError,   \* history: the call (task, eval) whose exception ended the process
    iterStart,     \* history: PROGRESS when the loop iteration last begun began
    fn,            \* SpecFn only: the function last applied, its argument and its result
    unscored,      \* history: the vocabulary rounds whose feedback gave no score
    run,           \* history: the practice loop that is running or was left in the last
                   \* step: its oracle requests, its completed rounds, its counter on entry
    mode,          \* app.py: the sidebar's radio
    session_state, \* app.py: st.session_state
    evaluated,     \* history: the request that gave each stored feedback
    page,          \* history: what the last script run of app.py did
    api_key,       \* os.getenv("OPENAI_API_KEY") at startup
    report         \* history: the counters show_progress printed since the round last
                   \* completed, if it printed any

vars == << pc, kind, level, mapped_level, direction, task, user_answer, feedback,
           PROGRESS, stdin, out, lastRequest, oracleError, iterStart, fn,
           api_key, page, evaluated, session_state, mode, run, unscored, report >>

\* A function applied: its name, its text argument, the tag it was asked for (the
\* field extraction of vocab_mode) and what it returned, an Optional[str] or, of
\* the two functions that always return a string, a str.
AppliedTo(name, arg, tag, result) ==
    [name |-> name, arg |-> arg, tag |-> tag, res |-> result]
Applied(name, arg, string) == AppliedTo(name, arg, <<>>, Some(string))

\* os.getenv without the variable set, and with it set to a key.
NoKey == "None"
SomeKey == "sk-..."

ZeroProgress ==
    [vocab |-> [total |-> 0, correct |-> 0, partial |-> 0, incorrect |-> 0],
     exam |-> [listening_attempts |-> 0, reading_attempts |-> 0,
               writing_attempts |-> 0, speaking_attempts |-> 0]]

\* Completed evaluation rounds of the session.
Rounds(P) ==
    P.vocab.total + P.exam.listening_attempts + P.exam.reading_attempts
        + P.exam.writing_attempts + P.exam.speaking_attempts

\* A mode is entered with its counter at n: no request made, no round completed.
EnteredAt(n) == [requests |-> 0, rounds |-> 0, start |-> n]

\* No practice loop is running and none was left in the last step.
NoRun == EnteredAt(0)

\* Nothing printed by show_progress since the round last completed.
NoReport == [shown |-> FALSE, values |-> ZeroProgress]

\* app.py: the options of the sidebar's radio and of the two level boxes.
ModeOptions == { "Vocabulary practice (A1-C1)", "Exam practice (B2/C1)" }
VocabLevelOptions == { A1, A2, B1, B2, C1 }
ExamLevelOptions == { B2, C1 }

\* app.py: the four keys of st.session_state, each the empty string at first.
EmptySession ==
    [vocab_task |-> <<>>, vocab_feedback |-> <<>>, exam_task |-> <<>>, exam_feedback |-> <<>>]

\* app.py: the evaluation requests, by the values put into their f-strings.
AppRequest(call, lvl, exercise, answer) ==
    [call |-> call, level |-> lvl, task |-> exercise, answer |-> answer]
NoAppRequest == AppRequest("none", <<>>, <<>>, <<>>)

Init ==
    /\ pc = "Startup"
    /\ mode = "Vocabulary practice (A1-C1)"
    /\ session_state = EmptySession
    /\ evaluated = [vocab |-> NoAppRequest, exam |-> NoAppRequest]
    /\ page = "first_run"
    /\ api_key \in {NoKey, SomeKey}
    /\ report = NoReport
    /\ unscored = 0
    /\ run = NoRun
    /\ kind = "none"
    /\ level = <<>>
    /\ mapped_level = <<>>
    /\ direction = <<>>
    /\ task = <<>>
    /\ user_answer = <<>>
    /\ feedback = <<>>
    /\ PROGRESS = ZeroProgress
    /\ stdin = [prompt |-> "none", text |-> <<>>]
    /\ out = "none"
    /\ lastRequest = NoRequest
    /\ oracleError = "none"
    /\ iterStart = ZeroProgress
    /\ fn = Applied("none", <<>>, <<>>)

\* IsExit without lower(): the exit words in lower case only.
IsExit_CaseSensitive(answer) == answer \in {sQ, sQuit, sExit}

\* The test every answer prompt makes of the stripped line.
IsExit(answer) == lower(answer) \in {sQ, sQuit, sExit}

(***************************************************************************)
(* The module's top level.                                                 *)
(***************************************************************************)
\* Startup with the client made on the first call of the oracle instead.
Startup_ClientMadeLazily ==
    /\ pc = "Startup"
    /\ pc' = "MainMenu"
    /\ UNCHANGED << kind, level, mapped_level, direction, task, user_answer, feedback,
                    PROGRESS, stdin, out, lastRequest, oracleError, iterStart, fn,
                    api_key, page, evaluated, session_state, mode, run, unscored, report >>

\* load_dotenv() and OpenAI(api_key=os.getenv("OPENAI_API_KEY")), then main():
\* the constructor of the openai package (1.0 and later, which the import of
\* OpenAI asks for) raises OpenAIError when it is given no key and the
\* environment holds none; nothing catches it and the process ends.
Startup ==
    /\ pc = "Startup"
    /\ IF api_key = NoKey
       THEN pc' = "StartupFailed" /\ out' = "traceback"
       ELSE pc' = "MainMenu" /\ out' = out
    /\ UNCHANGED << kind, level, mapped_level, direction, task, user_answer, feedback,
                    PROGRESS, stdin, lastRequest, oracleError, iterStart, fn,
                    api_key, page, evaluated, session_state, mode, run, unscored, report >>

(***************************************************************************)
(* main and show_progress.                                                 *)
(***************************************************************************)
\* show_progress resetting the counters after it printed them.
show_progress_Resets ==
    /\ report' = [shown |-> TRUE, values |-> PROGRESS]
    /\ PROGRESS' = ZeroProgress

\* show_progress prints the eight counters and assigns nothing.
show_progress ==
    /\ report' =
          [shown |-> TRUE,
           values |->
             [vocab |-> [total |-> PROGRESS.vocab.total,
                         correct |-> PROGRESS.vocab.correct,
                         partial |-> PROGRESS.vocab.partial,
                         incorrect |-> PROGRESS.vocab.incorrect],
              exam |-> [listening_attempts |-> PROGRESS.exam.listening_attempts,
                        reading_attempts |-> PROGRESS.exam.reading_attempts,
                        writing_attempts |-> PROGRESS.exam.writing_attempts,
                        speaking_attempts |-> PROGRESS.exam.speaking_attempts]]]
    /\ PROGRESS' = PROGRESS

\* One pass of main's loop: the choice is read and dispatched.
MainMenu ==
    /\ pc = "MainMenu"
    /\ \E line \in MenuInputs :
        LET choice == strip(line) IN
        /\ stdin' = [prompt |-> "main_menu", text |-> line]
        /\ CASE choice = <<"1">> ->
                  /\ pc' = "AwaitingLevelSelection" /\ kind' = "vocab"
                  /\ out' = "vocabulary_trainer"
                  /\ UNCHANGED << PROGRESS, report >>
                  /\ run' = EnteredAt(PROGRESS.vocab.total)
             [] choice = <<"2">> ->
                  /\ pc' = "ExamLevelSelection" /\ kind' = "exam"
                  /\ out' = "exam_trainer"
                  /\ UNCHANGED << PROGRESS, report >>
                  /\ run' = NoRun
             [] choice = <<"3">> ->
                  /\ pc' = "MainMenu" /\ kind' = kind
                  /\ out' = "session_progress"
                  /\ show_progress
                  /\ run' = NoRun
             [] choice = <<"0">> ->
                  /\ pc' = "Exited" /\ kind' = kind
                  /\ out' = "bye"
                  /\ UNCHANGED << PROGRESS, report >>
                  /\ run' = NoRun
             [] OTHER ->
                  /\ pc' = "MainMenu" /\ kind' = kind
                  /\ out' = "invalid_input"
                  /\ UNCHANGED << PROGRESS, report >>
                  /\ run' = NoRun
    /\ UNCHANGED << level, mapped_level, direction, task, user_answer, feedback,
                    lastRequest, oracleError, iterStart, fn, api_key, page, evaluated, session_state, mode, unscored >>

(***************************************************************************)
(* chat_with_ai.                                                           *)
(***************************************************************************)
\* chat_with_ai raises: no caller catches it, the exception ends the process.
OracleRaises(request, call) ==
    /\ lastRequest' = request
    /\ oracleError' = call
    /\ pc' = "Crashed"
    /\ out' = "traceback"

\* chat_with_ai returns the content stripped.
chat_with_ai(content) == strip(content)

(***************************************************************************)
(* vocab_mode.                                                             *)
(***************************************************************************)
VocabLevels == {A0, A1, A2, B1, B2, C1}

\* VocabSelectLevel returning to main's loop on an unknown level.
VocabSelectLevel_Aborts ==
    /\ pc = "AwaitingLevelSelection"
    /\ \E line \in LevelInputs :
        LET read == upper(strip(line)) IN
        /\ stdin' = [prompt |-> "vocab_level", text |-> line]
        /\ IF read \notin VocabLevels
           THEN /\ out' = "unknown_level" /\ pc' = "MainMenu" /\ kind' = "none"
                /\ UNCHANGED << level, mapped_level >>
           ELSE /\ out' = "none" /\ pc' = "AwaitingDirection" /\ kind' = kind
                /\ level' = read
                /\ mapped_level' = normalize_level(read)
    /\ UNCHANGED << direction, task, user_answer, feedback, PROGRESS,
                    lastRequest, oracleError, iterStart, fn,
                    api_key, page, evaluated, session_state, mode, run, unscored, report >>

VocabSelectLevel ==
    /\ pc = "AwaitingLevelSelection"
    /\ \E line \in LevelInputs :
        LET read == upper(strip(line))
            chosen == IF read \notin VocabLevels THEN B2 ELSE read
        IN  /\ stdin' = [prompt |-> "vocab_level", text |-> line]
            /\ out' = IF read \notin VocabLevels THEN "unknown_level" ELSE "none"
            /\ level' = chosen
            /\ mapped_level' = normalize_level(chosen)
    /\ pc' = "AwaitingDirection"
    /\ UNCHANGED << kind, direction, task, user_answer, feedback, PROGRESS,
                    lastRequest, oracleError, iterStart, fn,
                    api_key, page, evaluated, session_state, mode, run, unscored, report >>

VocabSelectDirection ==
    /\ pc = "AwaitingDirection"
    /\ \E line \in DirectionInputs :
        LET read == strip(line) IN
        /\ stdin' = [prompt |-> "direction", text |-> line]
        /\ out' = IF read \notin {<<"1">>, <<"2">>} THEN "unknown_choice" ELSE "none"
        /\ direction' = IF read \notin {<<"1">>, <<"2">>} THEN <<"1">> ELSE read
    /\ pc' = "GeneratingTask"
    /\ UNCHANGED << kind, level, mapped_level, task, user_answer, feedback, PROGRESS,
                    lastRequest, oracleError, iterStart, fn,
                    api_key, page, evaluated, session_state, mode, run, unscored, report >>

\* The head of the loop: the task is asked of the oracle and shown.
VocabGenerateTask ==
    /\ pc = "GeneratingTask" /\ kind = "vocab"
    /\ iterStart' = PROGRESS
    /\ LET request == IF direction = <<"1">>
                      THEN generate_de_to_en_task(mapped_level)
                      ELSE generate_en_to_de_task(mapped_level)
       IN  \/ /\ OracleRaises(request, "task")
              /\ run' = [run EXCEPT !.requests = @ + 1]
              /\ UNCHANGED task
           \/ /\ \E content \in TaskContents : task' = chat_with_ai(content)
              /\ lastRequest' = request
              /\ pc' = "AwaitingUserAnswer"
              /\ out' = "task"
              /\ run' = [run EXCEPT !.requests = @ + 1]
              /\ UNCHANGED oracleError
    /\ UNCHANGED << kind, level, mapped_level, direction, user_answer, feedback,
                    PROGRESS, stdin, fn,
                    api_key, page, evaluated, session_state, mode, unscored, report >>

\* The answer prompt: the exit words leave vocab_mode for main's loop.
VocabReadAnswer ==
    /\ pc = "AwaitingUserAnswer" /\ kind = "vocab"
    /\ \E line \in AnswerInputs :
        LET answer == strip(line) IN
        /\ stdin' = [prompt |-> "answer", text |-> line]
        /\ IF IsExit(answer)
           THEN /\ pc' = "MainMenu" /\ kind' = "none"
                /\ out' = "returning_to_main_menu"
                /\ level' = <<>> /\ mapped_level' = <<>> /\ direction' = <<>>
                /\ task' = <<>> /\ user_answer' = <<>> /\ feedback' = <<>>
           ELSE /\ Rounds(PROGRESS) < MaxRounds
                /\ pc' = "Evaluating"
                /\ user_answer' = answer
                /\ UNCHANGED << kind, out, level, mapped_level, direction, task, feedback >>
    /\ UNCHANGED << PROGRESS, lastRequest, oracleError, iterStart, fn,
                    api_key, page, evaluated, session_state, mode, run, unscored, report >>

\* RecordVocabResult counting total only for a round whose score was not read.
RecordVocabResult_TotalOfUnread(P, score) ==
    LET v == P.vocab
    IN  [P EXCEPT !.vocab =
            IF score = Some(sCorrect) THEN [v EXCEPT !.correct = @ + 1]
            ELSE IF score = Some(sPartiallyCorrect) THEN [v EXCEPT !.partial = @ + 1]
            ELSE IF score = Some(sIncorrect) THEN [v EXCEPT !.incorrect = @ + 1]
            ELSE [v EXCEPT !.total = @ + 1]]

\* RecordVocabResult with partially_correct counted as correct too.
RecordVocabResult_PartialAlsoCorrect(P, score) ==
    LET v == P.vocab
        w == [v EXCEPT !.total = @ + 1]
    IN  [P EXCEPT !.vocab =
            IF score = Some(sCorrect) THEN [w EXCEPT !.correct = @ + 1]
            ELSE IF score = Some(sPartiallyCorrect)
                 THEN [w EXCEPT !.partial = @ + 1, !.correct = @ + 1]
            ELSE IF score = Some(sIncorrect) THEN [w EXCEPT !.incorrect = @ + 1]
            ELSE w]

\* PROGRESS after a vocabulary round with the given parsed score.
RecordVocabResult(P, score) ==
    LET v == P.vocab
        w == [v EXCEPT !.total = @ + 1]
    IN  [P EXCEPT !.vocab =
            IF score = Some(sCorrect) THEN [w EXCEPT !.correct = @ + 1]
            ELSE IF score = Some(sPartiallyCorrect) THEN [w EXCEPT !.partial = @ + 1]
            ELSE IF score = Some(sIncorrect) THEN [w EXCEPT !.incorrect = @ + 1]
            ELSE w]

\* VocabRecorded with an unread score reported as incorrect.
VocabRecorded_UnreadIsIncorrect(score) ==
    IF score = Some(sCorrect) THEN "recorded_correct"
    ELSE IF score = Some(sPartiallyCorrect) THEN "recorded_partially_correct"
    ELSE "recorded_incorrect"

\* The line printed after a vocabulary round.
VocabRecorded(score) ==
    IF score = Some(sCorrect) THEN "recorded_correct"
    ELSE IF score = Some(sPartiallyCorrect) THEN "recorded_partially_correct"
    ELSE IF score = Some(sIncorrect) THEN "recorded_incorrect"
    ELSE "could_not_read_score"

\* VocabEvaluate with total counted before the oracle is asked.
VocabEvaluate_CountsBeforeCall ==
    /\ pc = "Evaluating" /\ kind = "vocab"
    /\ LET word == ExtractField(task, sWORD)
           request == IF direction = <<"1">>
                      THEN evaluate_de_to_en(word, ExtractField(task, sSENTENCE), user_answer)
                      ELSE evaluate_en_to_de(word, user_answer)
           counted == [PROGRESS EXCEPT !.vocab.total = @ + 1]
       IN  \/ /\ OracleRaises(request, "eval")
              /\ run' = [run EXCEPT !.requests = @ + 1]
              /\ PROGRESS' = counted
              /\ UNCHANGED << feedback, report, unscored >>
           \/ /\ \E content \in FeedbackContents :
                    /\ feedback' = chat_with_ai(content)
                    /\ PROGRESS' = RecordVocabResult(PROGRESS, parse_vocab_score(feedback'))
                    /\ out' = VocabRecorded(parse_vocab_score(feedback'))
              /\ lastRequest' = request
              /\ pc' = "GeneratingTask"
              /\ report' = NoReport
              /\ unscored' = IF parse_vocab_score(feedback').some
                              THEN unscored ELSE unscored + 1
              /\ run' = [run EXCEPT !.requests = @ + 1, !.rounds = @ + 1]
              /\ UNCHANGED oracleError
    /\ UNCHANGED << kind, level, mapped_level, direction, task, user_answer, stdin,
                    iterStart, fn, api_key, page, evaluated, session_state, mode >>

\* VocabEvaluate evaluating every answer with the German->English prompt, whatever
\* the direction.
VocabEvaluate_AlwaysDeToEn ==
    /\ pc = "Evaluating" /\ kind = "vocab"
    /\ LET word == ExtractField(task, sWORD)
           request == evaluate_de_to_en(word, ExtractField(task, sSENTENCE), user_answer)
       IN  \/ /\ OracleRaises(request, "eval")
              /\ run' = [run EXCEPT !.requests = @ + 1]
              /\ UNCHANGED << feedback, PROGRESS, report, unscored >>
           \/ /\ \E content \in FeedbackContents :
                    /\ feedback' = chat_with_ai(content)
                    /\ PROGRESS' = RecordVocabResult(PROGRESS, parse_vocab_score(feedback'))
                    /\ out' = VocabRecorded(parse_vocab_score(feedback'))
              /\ lastRequest' = request
              /\ pc' = "GeneratingTask"
              /\ report' = NoReport
              /\ unscored' = IF parse_vocab_score(feedback').some
                              THEN unscored ELSE unscored + 1
              /\ run' = [run EXCEPT !.requests = @ + 1, !.rounds = @ + 1]
              /\ UNCHANGED oracleError
    /\ UNCHANGED << kind, level, mapped_level, direction, task, user_answer, stdin,
                    iterStart, fn, api_key, page, evaluated, session_state, mode >>

\* The rest of the loop's body: the evaluation is asked of the oracle, shown and
\* recorded, and the loop begins again.
VocabEvaluate ==
    /\ pc = "Evaluating" /\ kind = "vocab"
    /\ LET word == ExtractField(task, sWORD)
           request == IF direction = <<"1">>
                      THEN evaluate_de_to_en(word, ExtractField(task, sSENTENCE), user_answer)
                      ELSE evaluate_en_to_de(word, user_answer)
       IN  \/ /\ OracleRaises(request, "eval")
              /\ run' = [run EXCEPT !.requests = @ + 1]
              /\ UNCHANGED << feedback, PROGRESS, report, unscored >>
           \/ /\ \E content \in FeedbackContents :
                    /\ feedback' = chat_with_ai(content)
                    /\ PROGRESS' = RecordVocabResult(PROGRESS, parse_vocab_score(feedback'))
                    /\ out' = VocabRecorded(parse_vocab_score(feedback'))
              /\ lastRequest' = request
              /\ pc' = "GeneratingTask"
              /\ report' = NoReport
              /\ unscored' = IF parse_vocab_score(feedback').some
                              THEN unscored ELSE unscored + 1
              /\ run' = [run EXCEPT !.requests = @ + 1, !.rounds = @ + 1]
              /\ UNCHANGED oracleError
    /\ UNCHANGED << kind, level, mapped_level, direction, task, user_answer, stdin,
                    iterStart, fn, api_key, page, evaluated, session_state, mode >>

(***************************************************************************)
(* exam_mode.                                                              *)
(***************************************************************************)
ExamLevels == {B2, C1}

\* ExamSelectLevel beginning exam_mode with the exam counters at 0.
ExamSelectLevel_ResetsCounters ==
    /\ pc = "ExamLevelSelection"
    /\ \E line \in LevelInputs :
        LET read == upper(strip(line)) IN
        /\ stdin' = [prompt |-> "exam_level", text |-> line]
        /\ out' = IF read \notin ExamLevels THEN "unknown_level" ELSE "none"
        /\ level' = IF read \notin ExamLevels THEN B2 ELSE read
    /\ pc' = "ExamMenu"
    /\ PROGRESS' = [PROGRESS EXCEPT !.exam = ZeroProgress.exam]
    /\ UNCHANGED << kind, mapped_level, direction, task, user_answer, feedback,
                    lastRequest, oracleError, iterStart, fn,
                    api_key, page, evaluated, session_state, mode, run, unscored, report >>

ExamSelectLevel ==
    /\ pc = "ExamLevelSelection"
    /\ \E line \in LevelInputs :
        LET read == upper(strip(line)) IN
        /\ stdin' = [prompt |-> "exam_level", text |-> line]
        /\ out' = IF read \notin ExamLevels THEN "unknown_level" ELSE "none"
        /\ level' = IF read \notin ExamLevels THEN B2 ELSE read
    /\ pc' = "ExamMenu"
    /\ UNCHANGED << kind, mapped_level, direction, task, user_answer, feedback,
                    PROGRESS, lastRequest, oracleError, iterStart, fn,
                    api_key, page, evaluated, session_state, mode, run, unscored, report >>

\* ExamMenu leaving exam_mode on a choice it does not know.
ExamMenu_UnknownLeaves ==
    /\ pc = "ExamMenu"
    /\ \E line \in MenuInputs :
        LET choice == strip(line) IN
        /\ stdin' = [prompt |-> "exam_menu", text |-> line]
        /\ CASE choice = <<"1">> ->
                  /\ pc' = "GeneratingTask" /\ kind' = "listening"
                  /\ out' = "listening_practice" /\ level' = level
                  /\ run' = EnteredAt(PROGRESS.exam.listening_attempts)
             [] choice = <<"2">> ->
                  /\ pc' = "GeneratingTask" /\ kind' = "reading"
                  /\ out' = "reading_practice" /\ level' = level
                  /\ run' = EnteredAt(PROGRESS.exam.reading_attempts)
             [] choice = <<"3">> ->
                  /\ pc' = "GeneratingTask" /\ kind' = "writing"
                  /\ out' = "writing_practice" /\ level' = level
                  /\ run' = EnteredAt(PROGRESS.exam.writing_attempts)
             [] choice = <<"4">> ->
                  /\ pc' = "GeneratingTask" /\ kind' = "speaking"
                  /\ out' = "speaking_practice" /\ level' = level
                  /\ run' = EnteredAt(PROGRESS.exam.speaking_attempts)
             [] OTHER ->
                  /\ pc' = "MainMenu" /\ kind' = "none"
                  /\ out' = IF choice = <<"0">> THEN "back_to_main_menu" ELSE "invalid_input"
                  /\ level' = <<>>
                  /\ run' = NoRun
    /\ UNCHANGED << mapped_level, direction, task, user_answer, feedback, PROGRESS,
                    lastRequest, oracleError, iterStart, fn,
                    api_key, page, evaluated, session_state, mode, unscored, report >>

\* One pass of exam_mode's loop: the choice is read and dispatched.
ExamMenu ==
    /\ pc = "ExamMenu"
    /\ \E line \in MenuInputs :
        LET choice == strip(line) IN
        /\ stdin' = [prompt |-> "exam_menu", text |-> line]
        /\ CASE choice = <<"1">> ->
                  /\ pc' = "GeneratingTask" /\ kind' = "listening"
                  /\ out' = "listening_practice" /\ level' = level
                  /\ run' = EnteredAt(PROGRESS.exam.listening_attempts)
             [] choice = <<"2">> ->
                  /\ pc' = "GeneratingTask" /\ kind' = "reading"
                  /\ out' = "reading_practice" /\ level' = level
                  /\ run' = EnteredAt(PROGRESS.exam.reading_attempts)
             [] choice = <<"3">> ->
                  /\ pc' = "GeneratingTask" /\ kind' = "writing"
                  /\ out' = "writing_practice" /\ level' = level
                  /\ run' = EnteredAt(PROGRESS.exam.writing_attempts)
             [] choice = <<"4">> ->
                  /\ pc' = "GeneratingTask" /\ kind' = "speaking"
                  /\ out' = "speaking_practice" /\ level' = level
                  /\ run' = EnteredAt(PROGRESS.exam.speaking_attempts)
             [] choice = <<"0">> ->
                  /\ pc' = "MainMenu" /\ kind' = "none"
                  /\ out' = "back_to_main_menu" /\ level' = <<>>
                  /\ run' = NoRun
             [] OTHER ->
                  /\ pc' = "ExamMenu" /\ kind' = kind
                  /\ out' = "invalid_input" /\ level' = level
                  /\ run' = NoRun
    /\ UNCHANGED << mapped_level, direction, task, user_answer, feedback, PROGRESS,
                    lastRequest, oracleError, iterStart, fn,
                    api_key, page, evaluated, session_state, mode, unscored, report >>

\* ExamReadAnswer leaving exam_mode as well on an exit word.
ExamReadAnswer_ToMainMenu ==
    /\ \E line \in AnswerInputs :
        LET answer == strip(line) IN
        /\ stdin' = [prompt |-> "answer", text |-> line]
        /\ IF IsExit(answer)
           THEN /\ pc' = "MainMenu" /\ kind' = "none"
                /\ out' = "returning_to_main_menu"
                /\ task' = <<>> /\ user_answer' = <<>> /\ feedback' = <<>>
                /\ level' = <<>>
           ELSE /\ Rounds(PROGRESS) < MaxRounds
                /\ pc' = "Evaluating"
                /\ user_answer' = answer
                /\ UNCHANGED << kind, out, task, feedback, level >>
    /\ UNCHANGED << mapped_level, direction, PROGRESS, lastRequest,
                    oracleError, iterStart, fn, api_key, page, evaluated, session_state, mode, run, unscored, report >>

\* ExamReadAnswer without strip().
ExamReadAnswer_Unstripped ==
    /\ \E line \in AnswerInputs :
        /\ stdin' = [prompt |-> "answer", text |-> line]
        /\ IF IsExit(line)
           THEN /\ pc' = "ExamMenu" /\ kind' = "exam"
                /\ out' = "returning_to_exam_menu"
                /\ task' = <<>> /\ user_answer' = <<>> /\ feedback' = <<>>
           ELSE /\ Rounds(PROGRESS) < MaxRounds
                /\ pc' = "Evaluating"
                /\ user_answer' = line
                /\ UNCHANGED << kind, out, task, feedback >>
    /\ UNCHANGED << level, mapped_level, direction, PROGRESS, lastRequest,
                    oracleError, iterStart, fn,
                    api_key, page, evaluated, session_state, mode, run, unscored, report >>

\* The answer prompt of the four practice loops: the exit words leave the loop
\* for exam_mode's loop.
ExamReadAnswer ==
    /\ \E line \in AnswerInputs :
        LET answer == strip(line) IN
        /\ stdin' = [prompt |-> "answer", text |-> line]
        /\ IF IsExit(answer)
           THEN /\ pc' = "ExamMenu" /\ kind' = "exam"
                /\ out' = "returning_to_exam_menu"
                /\ task' = <<>> /\ user_answer' = <<>> /\ feedback' = <<>>
           ELSE /\ Rounds(PROGRESS) < MaxRounds
                /\ pc' = "Evaluating"
                /\ user_answer' = answer
                /\ UNCHANGED << kind, out, task, feedback >>
    /\ UNCHANGED << level, mapped_level, direction, PROGRESS, lastRequest,
                    oracleError, iterStart, fn,
                    api_key, page, evaluated, session_state, mode, run, unscored, report >>

(***************************************************************************)
(* listening_mode.                                                        *)
(***************************************************************************)
ListeningGenerateTask ==
    /\ pc = "GeneratingTask" /\ kind = "listening"
    /\ iterStart' = PROGRESS
    /\ \/ /\ OracleRaises(listening_task(level), "task")
          /\ run' = [run EXCEPT !.requests = @ + 1]
          /\ UNCHANGED task
       \/ /\ \E content \in TaskContents : task' = chat_with_ai(content)
          /\ lastRequest' = listening_task(level)
          /\ pc' = "AwaitingUserAnswer"
          /\ out' = "task"
          /\ run' = [run EXCEPT !.requests = @ + 1]
          /\ UNCHANGED oracleError
    /\ UNCHANGED << kind, level, mapped_level, direction, user_answer, feedback,
                    PROGRESS, stdin, fn,
                    api_key, page, evaluated, session_state, mode, unscored, report >>

ListeningReadAnswer ==
    /\ pc = "AwaitingUserAnswer" /\ kind = "listening"
    /\ ExamReadAnswer

\* ListeningEvaluate counting the attempt only when a score was read.
ListeningEvaluate_CountsOnlyScored ==
    /\ pc = "Evaluating" /\ kind = "listening"
    /\ \/ /\ OracleRaises(listening_evaluation(level, task, user_answer), "eval")
          /\ run' = [run EXCEPT !.requests = @ + 1]
          /\ UNCHANGED << feedback, PROGRESS, report >>
       \/ /\ \E content \in FeedbackContents :
                /\ feedback' = chat_with_ai(content)
                /\ out' = IF parse_exam_score(feedback').some
                          THEN "recorded_listening_score" ELSE "could_not_read_score"
                /\ PROGRESS' = IF parse_exam_score(feedback').some
                               THEN [PROGRESS EXCEPT !.exam.listening_attempts = @ + 1]
                               ELSE PROGRESS
          /\ lastRequest' = listening_evaluation(level, task, user_answer)
          /\ pc' = "GeneratingTask"
          /\ report' = NoReport
          /\ run' = [run EXCEPT !.requests = @ + 1, !.rounds = @ + 1]
          /\ UNCHANGED oracleError
    /\ UNCHANGED << kind, level, mapped_level, direction, task, user_answer, stdin,
                    iterStart, fn, api_key, page, evaluated, session_state, mode, unscored >>

ListeningEvaluate ==
    /\ pc = "Evaluating" /\ kind = "listening"
    /\ \/ /\ OracleRaises(listening_evaluation(level, task, user_answer), "eval")
          /\ run' = [run EXCEPT !.requests = @ + 1]
          /\ UNCHANGED << feedback, PROGRESS, report >>
       \/ /\ \E content \in FeedbackContents :
                /\ feedback' = chat_with_ai(content)
                /\ out' = IF parse_exam_score(feedback').some
                          THEN "recorded_listening_score" ELSE "could_not_read_score"
          /\ PROGRESS' = [PROGRESS EXCEPT !.exam.listening_attempts = @ + 1]
          /\ lastRequest' = listening_evaluation(level, task, user_answer)
          /\ pc' = "GeneratingTask"
          /\ report' = NoReport
          /\ run' = [run EXCEPT !.requests = @ + 1, !.rounds = @ + 1]
          /\ UNCHANGED oracleError
    /\ UNCHANGED << kind, level, mapped_level, direction, task, user_answer, stdin,
                    iterStart, fn, api_key, page, evaluated, session_state, mode, unscored >>

(***************************************************************************)
(* reading_mode.                                                        *)
(***************************************************************************)
\* ReadingGenerateTask asking the oracle a second time when the first call
\* raised.
ReadingGenerateTask_Retries ==
    /\ pc = "GeneratingTask" /\ kind = "reading"
    /\ iterStart' = PROGRESS
    /\ \/ /\ OracleRaises(reading_task(level), "task")
          /\ run' = [run EXCEPT !.requests = @ + 2]
          /\ UNCHANGED task
       \/ /\ \E content \in TaskContents : task' = chat_with_ai(content)
          /\ lastRequest' = reading_task(level)
          /\ pc' = "AwaitingUserAnswer"
          /\ out' = "task"
          /\ \E calls \in {1, 2} : run' = [run EXCEPT !.requests = @ + calls]
          /\ UNCHANGED oracleError
    /\ UNCHANGED << kind, level, mapped_level, direction, user_answer, feedback,
                    PROGRESS, stdin, fn,
                    api_key, page, evaluated, session_state, mode, unscored, report >>

ReadingGenerateTask ==
    /\ pc = "GeneratingTask" /\ kind = "reading"
    /\ iterStart' = PROGRESS
    /\ \/ /\ OracleRaises(reading_task(level), "task")
          /\ run' = [run EXCEPT !.requests = @ + 1]
          /\ UNCHANGED task
       \/ /\ \E content \in TaskContents : task' = chat_with_ai(content)
          /\ lastRequest' = reading_task(level)
          /\ pc' = "AwaitingUserAnswer"
          /\ out' = "task"
          /\ run' = [run EXCEPT !.requests = @ + 1]
          /\ UNCHANGED oracleError
    /\ UNCHANGED << kind, level, mapped_level, direction, user_answer, feedback,
                    PROGRESS, stdin, fn,
                    api_key, page, evaluated, session_state, mode, unscored, report >>

\* ReadingReadAnswer counting the attempt as soon as an answer is read.
ReadingReadAnswer_CountsAttempt ==
    /\ pc = "AwaitingUserAnswer" /\ kind = "reading"
    /\ \E line \in AnswerInputs :
        LET answer == strip(line) IN
        /\ stdin' = [prompt |-> "answer", text |-> line]
        /\ IF IsExit(answer)
           THEN /\ pc' = "ExamMenu" /\ kind' = "exam"
                /\ out' = "returning_to_exam_menu"
                /\ task' = <<>> /\ user_answer' = <<>> /\ feedback' = <<>>
                /\ UNCHANGED PROGRESS
           ELSE /\ Rounds(PROGRESS) < MaxRounds
                /\ pc' = "Evaluating"
                /\ user_answer' = answer
                /\ PROGRESS' = [PROGRESS EXCEPT !.exam.reading_attempts = @ + 1]
                /\ UNCHANGED << kind, out, task, feedback >>
    /\ UNCHANGED << level, mapped_level, direction, lastRequest,
                    oracleError, iterStart, fn, api_key, page, evaluated, session_state, mode, run, unscored, report >>

ReadingReadAnswer ==
    /\ pc = "AwaitingUserAnswer" /\ kind = "reading"
    /\ ExamReadAnswer

ReadingEvaluate ==
    /\ pc = "Evaluating" /\ kind = "reading"
    /\ \/ /\ OracleRaises(reading_evaluation(level, task, user_answer), "eval")
          /\ run' = [run EXCEPT !.requests = @ + 1]
          /\ UNCHANGED << feedback, PROGRESS, report >>
       \/ /\ \E content \in FeedbackContents :
                /\ feedback' = chat_with_ai(content)
                /\ out' = IF parse_exam_score(feedback').some
                          THEN "recorded_reading_score" ELSE "could_not_read_score"
          /\ PROGRESS' = [PROGRESS EXCEPT !.exam.reading_attempts = @ + 1]
          /\ lastRequest' = reading_evaluation(level, task, user_answer)
          /\ pc' = "GeneratingTask"
          /\ report' = NoReport
          /\ run' = [run EXCEPT !.requests = @ + 1, !.rounds = @ + 1]
          /\ UNCHANGED oracleError
    /\ UNCHANGED << kind, level, mapped_level, direction, task, user_answer, stdin,
                    iterStart, fn, api_key, page, evaluated, session_state, mode, unscored >>

(***************************************************************************)
(* writing_mode.                                                        *)
(***************************************************************************)
WritingGenerateTask ==
    /\ pc = "GeneratingTask" /\ kind = "writing"
    /\ iterStart' = PROGRESS
    /\ \/ /\ OracleRaises(writing_task(level), "task")
          /\ run' = [run EXCEPT !.requests = @ + 1]
          /\ UNCHANGED task
       \/ /\ \E content \in TaskContents : task' = chat_with_ai(content)
          /\ lastRequest' = writing_task(level)
          /\ pc' = "AwaitingUserAnswer"
          /\ out' = "task"
          /\ run' = [run EXCEPT !.requests = @ + 1]
          /\ UNCHANGED oracleError
    /\ UNCHANGED << kind, level, mapped_level, direction, user_answer, feedback,
                    PROGRESS, stdin, fn,
                    api_key, page, evaluated, session_state, mode, unscored, report >>

WritingReadAnswer ==
    /\ pc = "AwaitingUserAnswer" /\ kind = "writing"
    /\ ExamReadAnswer

WritingEvaluate ==
    /\ pc = "Evaluating" /\ kind = "writing"
    /\ \/ /\ OracleRaises(writing_evaluation(level, task, user_answer), "eval")
          /\ run' = [run EXCEPT !.requests = @ + 1]
          /\ UNCHANGED << feedback, PROGRESS, report >>
       \/ /\ \E content \in FeedbackContents :
                /\ feedback' = chat_with_ai(content)
                /\ out' = IF parse_exam_level(feedback').some
                          THEN "estimated_writing_level" ELSE "could_not_read_level"
          /\ PROGRESS' = [PROGRESS EXCEPT !.exam.writing_attempts = @ + 1]
          /\ lastRequest' = writing_evaluation(level, task, user_answer)
          /\ pc' = "GeneratingTask"
          /\ report' = NoReport
          /\ run' = [run EXCEPT !.requests = @ + 1, !.rounds = @ + 1]
          /\ UNCHANGED oracleError
    /\ UNCHANGED << kind, level, mapped_level, direction, task, user_answer, stdin,
                    iterStart, fn, api_key, page, evaluated, session_state, mode, unscored >>

(***************************************************************************)
(* speaking_mode.                                                        *)
(***************************************************************************)
SpeakingGenerateTask ==
    /\ pc = "GeneratingTask" /\ kind = "speaking"
    /\ iterStart' = PROGRESS
    /\ \/ /\ OracleRaises(speaking_task(level), "task")
          /\ run' = [run EXCEPT !.requests = @ + 1]
          /\ UNCHANGED task
       \/ /\ \E content \in TaskContents : task' = chat_with_ai(content)
          /\ lastRequest' = speaking_task(level)
          /\ pc' = "AwaitingUserAnswer"
          /\ out' = "task"
          /\ run' = [run EXCEPT !.requests = @ + 1]
          /\ UNCHANGED oracleError
    /\ UNCHANGED << kind, level, mapped_level, direction, user_answer, feedback,
                    PROGRESS, stdin, fn,
                    api_key, page, evaluated, session_state, mode, unscored, report >>

SpeakingReadAnswer ==
    /\ pc = "AwaitingUserAnswer" /\ kind = "speaking"
    /\ ExamReadAnswer

\* SpeakingEvaluate ending the loop once a level estimate was read.
SpeakingEvaluate_StopsOnEstimate ==
    /\ pc = "Evaluating" /\ kind = "speaking"
    /\ \/ /\ OracleRaises(speaking_evaluation(level, task, user_answer), "eval")
          /\ run' = [run EXCEPT !.requests = @ + 1]
          /\ UNCHANGED << feedback, PROGRESS, kind, report >>
       \/ /\ \E content \in FeedbackContents :
                /\ feedback' = chat_with_ai(content)
                /\ IF parse_exam_level(feedback').some
                   THEN /\ out' = "estimated_speaking_level"
                        /\ pc' = "ExamMenu" /\ kind' = "exam"
                   ELSE /\ out' = "could_not_read_level"
                        /\ pc' = "GeneratingTask" /\ kind' = kind
          /\ PROGRESS' = [PROGRESS EXCEPT !.exam.speaking_attempts = @ + 1]
          /\ lastRequest' = speaking_evaluation(level, task, user_answer)
          /\ report' = NoReport
          /\ run' = [run EXCEPT !.requests = @ + 1, !.rounds = @ + 1]
          /\ UNCHANGED oracleError
    /\ UNCHANGED << level, mapped_level, direction, task, user_answer, stdin,
                    iterStart, fn, api_key, page, evaluated, session_state, mode, unscored >>

SpeakingEvaluate ==
    /\ pc = "Evaluating" /\ kind = "speaking"
    /\ \/ /\ OracleRaises(speaking_evaluation(level, task, user_answer), "eval")
          /\ run' = [run EXCEPT !.requests = @ + 1]
          /\ UNCHANGED << feedback, PROGRESS, report >>
       \/ /\ \E content \in FeedbackContents :
                /\ feedback' = chat_with_ai(content)
                /\ out' = IF parse_exam_level(feedback').some
                          THEN "estimated_speaking_level" ELSE "could_not_read_level"
          /\ PROGRESS' = [PROGRESS EXCEPT !.exam.speaking_attempts = @ + 1]
          /\ lastRequest' = speaking_evaluation(level, task, user_answer)
          /\ pc' = "GeneratingTask"
          /\ report' = NoReport
          /\ run' = [run EXCEPT !.requests = @ + 1, !.rounds = @ + 1]
          /\ UNCHANGED oracleError
    /\ UNCHANGED << kind, level, mapped_level, direction, task, user_answer, stdin,
                    iterStart, fn, api_key, page, evaluated, session_state, mode, unscored >>

(***************************************************************************)
(* The program.                                                            *)
(***************************************************************************)
Next ==
    \/ Startup
    \/ MainMenu
    \/ VocabSelectLevel
    \/ VocabSelectDirection
    \/ VocabGenerateTask
    \/ VocabReadAnswer
    \/ VocabEvaluate
    \/ ExamSelectLevel
    \/ ExamMenu
    \/ ListeningGenerateTask
    \/ ListeningReadAnswer
    \/ ListeningEvaluate
    \/ ReadingGenerateTask
    \/ ReadingReadAnswer
    \/ ReadingEvaluate
    \/ WritingGenerateTask
    \/ WritingReadAnswer
    \/ WritingEvaluate
    \/ SpeakingGenerateTask
    \/ SpeakingReadAnswer
    \/ SpeakingEvaluate

Spec == Init /\ [][Next]_vars

(***************************************************************************)
(* The pure functions, applied to arguments drawn from bounded sets.       *)
(***************************************************************************)
LevelChars == {"A", "a", "B", "b", "C", "c", "0", "1", "2", " "}

RECURSIVE StringsUpTo(_, _)
\* The strings over chars of length n at most.
StringsUpTo(chars, n) ==
    IF n = 0 THEN { <<>> }
    ELSE LET shorter == StringsUpTo(chars, n - 1)
         IN  shorter \cup { Append(t, c) : t \in shorter, c \in chars }

\* A function of the program is applied once to one input.
ApplyNormalizeLevel ==
    /\ fn.name = "none"
    /\ \E arg \in StringsUpTo(LevelChars, MaxLevelLen) :
          fn' = Applied("normalize_level", arg, normalize_level(arg))
    /\ UNCHANGED << pc, kind, level, mapped_level, direction, task, user_answer,
                    feedback, PROGRESS, stdin, out, lastRequest, oracleError,
                    iterStart, api_key, page, evaluated, session_state, mode, run, unscored, report >>

\* Texts of the form: something, a tag, a gap, a value, something.
Tagged(pres, tags, gaps, values, posts) ==
    { pre \o tag \o gap \o value \o post :
        pre \in pres, tag \in tags, gap \in gaps, value \in values, post \in posts }

\* What stands between a tag and its value.
Gaps == { <<>>, SP, NL, <<" ", "\t">> }

\* Texts that hold a tag twice, with two values that differ.
TaggedTwice(tag, values) ==
    { pre \o tag \o gap \o v \o sep \o tag \o gap \o w \o post :
        pre \in { <<>>, <<"o", "k", "\n">> }, gap \in { <<>>, SP },
        v \in values, w \in values, sep \in { NL, SP }, post \in { <<>>, NL } }
    \ { pre \o tag \o gap \o v \o sep \o tag \o gap \o v \o post :
          pre \in { <<>>, <<"o", "k", "\n">> }, gap \in { <<>>, SP },
          v \in values, sep \in { NL, SP }, post \in { <<>>, NL } }

\* Feedback texts given to parse_vocab_score.
VocabScoreTexts ==
    TaggedTwice(sSCORE, { sCorrect, sPartiallyCorrect, sIncorrect }) \cup
    Tagged({ <<>>, <<"o", "k", "\n">>, SP, <<"x">> },
           { sSCORE, lower(sSCORE), <<"S", "C", "O", "R", "E">> },
           Gaps,
           { sCorrect, sPartiallyCorrect, sIncorrect, sCorrect \o <<"l", "y">>,
             <<"w", "r", "o", "n", "g">>, <<"C">> \o Tail(sCorrect), <<>> },
           { <<>>, NL, <<" ", "o", "k">>, <<".">> })

ApplyParseVocabScore ==
    /\ fn.name = "none"
    /\ \E text \in VocabScoreTexts :
          fn' = AppliedTo("parse_vocab_score", text, <<>>, parse_vocab_score(text))
    /\ UNCHANGED << pc, kind, level, mapped_level, direction, task, user_answer,
                    feedback, PROGRESS, stdin, out, lastRequest, oracleError,
                    iterStart, api_key, page, evaluated, session_state, mode, run, unscored, report >>

\* The tags vocab_mode reads out of a task.
FieldTags == { sWORD, sSENTENCE, sHINT }

\* A tag with its first letter only in upper case.
Capitalized(tag) == <<Head(tag)>> \o lower(Tail(tag))

\* Task texts given to the field extraction of vocab_mode.
FieldTexts(tag) ==
    Tagged({ <<>>, <<"o", "k", "\n">>, <<" ", " ">>, <<"x">> },
           { tag, lower(tag), Capitalized(tag) },
           Gaps,
           { <<"a", "b">>, <<"a", " ", "b">>, <<>> },
           { <<>>, NL, <<" ", "\n", "z">> })

ApplyExtractField ==
    /\ fn.name = "none"
    /\ \E tag \in FieldTags : \E text \in FieldTexts(tag) :
          fn' = AppliedTo("ExtractField", text, tag, Some(ExtractField(text, tag)))
    /\ UNCHANGED << pc, kind, level, mapped_level, direction, task, user_answer,
                    feedback, PROGRESS, stdin, out, lastRequest, oracleError,
                    iterStart, api_key, page, evaluated, session_state, mode, run, unscored, report >>

\* Feedback texts given to parse_exam_score.
ExamScoreTexts ==
    TaggedTwice(sSCORE, { <<"3", "/", "5">>, <<"7", "/", "3">>, <<"1", "0", "/", "2">> }) \cup
    Tagged({ <<>>, <<"o", "k", "\n">>, SP, <<"x">> },
           { sSCORE, lower(sSCORE), <<"S", "C", "O", "R", "E">> },
           Gaps,
           { <<"3", "/", "5">>, <<"7", "/", "3">>, <<"3", "/", "0">>,
             <<"1", "2", "/", "0", "5">>, <<"3", "/">>, <<"/", "5">>,
             <<"3", " ", "/", "5">>, <<"-", "3", "/", "5">>, <<"3">>, <<>> },
           { <<>>, NL, <<" ", "o", "k">>, <<".">> })

ApplyParseExamScore ==
    /\ fn.name = "none"
    /\ \E text \in ExamScoreTexts :
          fn' = AppliedTo("parse_exam_score", text, <<>>, parse_exam_score(text))
    /\ UNCHANGED << pc, kind, level, mapped_level, direction, task, user_answer,
                    feedback, PROGRESS, stdin, out, lastRequest, oracleError,
                    iterStart, api_key, page, evaluated, session_state, mode, run, unscored, report >>

\* Feedback texts given to parse_exam_level.
ExamLevelTexts ==
    TaggedTwice(sLEVEL, { B1, B2, C1 }) \cup
    Tagged({ <<>>, <<"o", "k", "\n">>, SP, <<"x">> },
           { sLEVEL, lower(sLEVEL), <<"L", "E", "V", "E", "L">> },
           Gaps,
           { B1, B2, C1, A2, B2 \o <<"1">>, lower(B2), <<"C">>, <<>> },
           { <<>>, NL, <<" ", "o", "k">>, <<".">> })

ApplyParseExamLevel ==
    /\ fn.name = "none"
    /\ \E text \in ExamLevelTexts :
          fn' = AppliedTo("parse_exam_level", text, <<>>, parse_exam_level(text))
    /\ UNCHANGED << pc, kind, level, mapped_level, direction, task, user_answer,
                    feedback, PROGRESS, stdin, out, lastRequest, oracleError,
                    iterStart, api_key, page, evaluated, session_state, mode, run, unscored, report >>

\* The end of a vocabulary round: the feedback is parsed and the round recorded.
ApplyRecordVocabRound ==
    /\ fn.name = "none"
    /\ \E text \in VocabScoreTexts :
          /\ fn' = AppliedTo("vocab_mode", text, <<>>, parse_vocab_score(text))
          /\ PROGRESS' = RecordVocabResult(PROGRESS, parse_vocab_score(text))
          /\ out' = VocabRecorded(parse_vocab_score(text))
    /\ UNCHANGED << pc, kind, level, mapped_level, direction, task, user_answer,
                    feedback, stdin, lastRequest, oracleError,
                    iterStart, api_key, page, evaluated, session_state, mode, run, unscored, report >>

NextFn ==
    \/ ApplyNormalizeLevel
    \/ ApplyParseVocabScore
    \/ ApplyExtractField
    \/ ApplyParseExamScore
    \/ ApplyParseExamLevel
    \/ ApplyRecordVocabRound

SpecFn == Init /\ [][NextFn]_vars

(***************************************************************************)
(* app.py, the web front end: every event of a widget runs the script from *)
(* its top; st.session_state is what one run leaves to the next.           *)
(***************************************************************************)
\* What the oracle may answer, before app.py's chat_with_ai strips it.
AppTaskContents == { <<"a", "b", "\n">>, <<" ", "c">>, <<" ", "\n">> }
AppFeedbackContents == { <<"g", "u", "t">>, <<"o", "k", " ">>, <<"\n">> }

\* What the text areas may hold when a button is pressed.
AppAnswers == { <<>>, <<"x", " ">> }

\* app.py's chat_with_ai: the content of the first choice, stripped.
app_chat_with_ai(content) == strip(content)

\* The script gets as far as its widgets: the client was made.
ScriptRuns == api_key # NoKey

\* What a script run leaves alone that belongs to main.py.
AppUnchanged ==
    UNCHANGED << pc, kind, level, mapped_level, direction, task, user_answer, feedback,
                 PROGRESS, stdin, out, lastRequest, oracleError, iterStart, fn,
                 api_key, run, unscored, report >>

\* The radio is set to the other mode: the run presses no button.
SelectMode ==
    /\ ScriptRuns
    /\ \E m \in ModeOptions \ {mode} : mode' = m
    /\ page' = "mode"
    /\ UNCHANGED << session_state, evaluated >>
    /\ AppUnchanged

\* "New vocabulary exercise" storing the task and leaving the feedback.
NewVocabularyExercise_KeepsFeedback ==
    /\ ScriptRuns
    /\ mode = "Vocabulary practice (A1-C1)"
    /\ \/ /\ page' = "exception"
          /\ UNCHANGED << session_state, evaluated >>
       \/ /\ \E content \in AppTaskContents :
                session_state' = [session_state EXCEPT
                                    !.vocab_task = app_chat_with_ai(content)]
          /\ evaluated' = evaluated
          /\ page' = "new_task"
    /\ UNCHANGED mode
    /\ AppUnchanged

\* "New vocabulary exercise": the task is stored and the feedback emptied;
\* an exception of chat_with_ai ends the run before either assignment.
NewVocabularyExercise ==
    /\ ScriptRuns
    /\ mode = "Vocabulary practice (A1-C1)"
    /\ \/ /\ page' = "exception"
          /\ UNCHANGED << session_state, evaluated >>
       \/ /\ \E content \in AppTaskContents :
                session_state' = [session_state EXCEPT
                                    !.vocab_task = app_chat_with_ai(content),
                                    !.vocab_feedback = <<>>]
          /\ evaluated' = [evaluated EXCEPT !.vocab = NoAppRequest]
          /\ page' = "new_task"
    /\ UNCHANGED mode
    /\ AppUnchanged

\* "Check my answer", drawn only under a stored task: the feedback on the
\* stored task and the text area's answer is stored.
CheckMyAnswer ==
    /\ ScriptRuns
    /\ mode = "Vocabulary practice (A1-C1)"
    /\ session_state.vocab_task # <<>>
    /\ \/ /\ page' = "exception"
          /\ UNCHANGED << session_state, evaluated >>
       \/ /\ \E content \in AppFeedbackContents :
                session_state' = [session_state EXCEPT
                                    !.vocab_feedback = app_chat_with_ai(content)]
          /\ \E lvl \in VocabLevelOptions, answer \in AppAnswers :
                evaluated' = [evaluated EXCEPT !.vocab =
                    AppRequest("check", lvl, session_state.vocab_task, answer)]
          /\ page' = "feedback"
    /\ UNCHANGED mode
    /\ AppUnchanged

\* "New exam-style task": the task is stored and the feedback emptied.
NewExamTask ==
    /\ ScriptRuns
    /\ mode # "Vocabulary practice (A1-C1)"
    /\ \/ /\ page' = "exception"
          /\ UNCHANGED << session_state, evaluated >>
       \/ /\ \E content \in AppTaskContents :
                session_state' = [session_state EXCEPT
                                    !.exam_task = app_chat_with_ai(content),
                                    !.exam_feedback = <<>>]
          /\ evaluated' = [evaluated EXCEPT !.exam = NoAppRequest]
          /\ page' = "new_task"
    /\ UNCHANGED mode
    /\ AppUnchanged

\* "Evaluate my response", drawn only under a stored task: the feedback on the
\* stored task and the text area's response is stored.
EvaluateMyResponse ==
    /\ ScriptRuns
    /\ mode # "Vocabulary practice (A1-C1)"
    /\ session_state.exam_task # <<>>
    /\ \/ /\ page' = "exception"
          /\ UNCHANGED << session_state, evaluated >>
       \/ /\ \E content \in AppFeedbackContents :
                session_state' = [session_state EXCEPT
                                    !.exam_feedback = app_chat_with_ai(content)]
          /\ \E lvl \in ExamLevelOptions, answer \in AppAnswers :
                evaluated' = [evaluated EXCEPT !.exam =
                    AppRequest("evaluate", lvl, session_state.exam_task, answer)]
          /\ page' = "feedback"
    /\ UNCHANGED mode
    /\ AppUnchanged

NextApp ==
    \/ SelectMode
    \/ NewVocabularyExercise
    \/ CheckMyAnswer
    \/ NewExamTask
    \/ EvaluateMyResponse

SpecApp == Init /\ [][NextApp]_vars

(***************************************************************************)
(* Properties.                                                            *)
(***************************************************************************)
Modes == {"vocab", "listening", "reading", "writing", "speaking"}
ExamKinds == {"listening", "reading", "writing", "speaking"}
ExitWords == { <<"q">>, <<"q", "u", "i", "t">>, <<"e", "x", "i", "t">> }

\* A round of the running loop has just been evaluated and recorded.
RoundCompleted == lastRequest.call = "eval" /\ oracleError = "none"

\* The text in the answer slot of an evaluation request.
AnswerOf(request) ==
    LET i == CHOOSE j \in 1..Len(request.user) : request.user[j].slot = "answer"
    IN  request.user[i].txt

\* text ends with lit.
EndsWith(text, lit) == StartsAt(text, Len(text) - Len(lit) + 1, lit)

\* How often lit occurs in text.
Occurrences(text, lit) == Cardinality({i \in 1..Len(text) : StartsAt(text, i, lit)})

\* The attempt counter of an exam practice loop.
Attempts(P, k) ==
    CASE k = "listening" -> P.exam.listening_attempts
      [] k = "reading" -> P.exam.reading_attempts
      [] k = "writing" -> P.exam.writing_attempts
      [] k = "speaking" -> P.exam.speaking_attempts

\* C1: when an oracle call fails, the task request's or the evaluation request's,
\* in any mode, every counter of the session statistics has the value it had
\* when that iteration of the loop began.
C1_FailedCallKeepsCounters ==
    oracleError # "none" => PROGRESS = iterStart

\* An evaluation call fails in writing practice after a recorded vocabulary round.
C1_Witness ==
    /\ pc = "Crashed" /\ oracleError = "eval" /\ kind = "writing"
    /\ PROGRESS.vocab.total = 1

\* C2: after a failed oracle call the session stands at a menu or a prompt from
\* which further exercises can be started; the interactive loop has not ended.
C2_FailedCallReturnsToMenu ==
    oracleError # "none" =>
        pc \in {"MainMenu", "ExamMenu", "AwaitingLevelSelection", "ExamLevelSelection",
                "AwaitingDirection", "GeneratingTask", "AwaitingUserAnswer"}

\* C3: when the line read at the answer prompt is q, quit or exit in any letter
\* case, the loop is left for its parent menu, no evaluation request has been
\* issued for that iteration and every counter is as the iteration found it.
C3_ExitWordLeavesLoop ==
    (stdin.prompt = "answer" /\ lower(stdin.text) \in ExitWords) =>
        /\ pc \in {"MainMenu", "ExamMenu"}
        /\ kind \in {"none", "exam"}
        /\ lastRequest.call = "task"
        /\ oracleError = "none"
        /\ PROGRESS = iterStart

\* QUIT in capitals leaves a practice loop that has recorded a round before.
C3_Witness ==
    /\ stdin = [prompt |-> "answer", text |-> <<"Q", "U", "I", "T">>]
    /\ pc = "ExamMenu"
    /\ Rounds(PROGRESS) > 0

C5_ExamRoundRecorded ==
    (RoundCompleted /\ kind \in ExamKinds) =>
        /\ pc = "GeneratingTask"
        /\ Attempts(PROGRESS, kind) = Attempts(iterStart, kind) + 1
        /\ \A k \in ExamKinds \ {kind} : Attempts(PROGRESS, k) = Attempts(iterStart, k)
        /\ PROGRESS.vocab = iterStart.vocab

\* A listening round whose feedback holds no score, after another listening round.
C5_Witness ==
    /\ RoundCompleted /\ kind = "listening"
    /\ ~parse_exam_score(feedback).some
    /\ PROGRESS.exam.listening_attempts = 2

\* C6: when the feedback of a completed round holds no tag its loop can read
\* (with neither SCORE: nor LEVEL: in it, none of the three parsers reads one),
\* the loop reports that the score or level could not be read, its coarse counter
\* (total, or the loop's attempts) has grown by exactly 1, no score bucket and no
\* other counter has changed, and the loop stands at the generation of the next
\* task.
C6_UnreadFeedbackContinues ==
    RoundCompleted =>
        /\ (~Contains(feedback, sSCORE) /\ ~Contains(feedback, sLEVEL) =>
                /\ parse_vocab_score(feedback) = None
                /\ parse_exam_score(feedback) = None
                /\ parse_exam_level(feedback) = None)
        /\ (kind = "vocab" /\ parse_vocab_score(feedback) = None =>
                /\ pc = "GeneratingTask"
                /\ out = "could_not_read_score"
                /\ PROGRESS = [iterStart EXCEPT !.vocab.total = @ + 1])
        /\ (kind \in {"listening", "reading"} /\ parse_exam_score(feedback) = None =>
                /\ pc = "GeneratingTask"
                /\ out = "could_not_read_score"
                /\ Attempts(PROGRESS, kind) = Attempts(iterStart, kind) + 1
                /\ Rounds(PROGRESS) = Rounds(iterStart) + 1
                /\ PROGRESS.vocab = iterStart.vocab)
        /\ (kind \in {"writing", "speaking"} /\ parse_exam_level(feedback) = None =>
                /\ pc = "GeneratingTask"
                /\ out = "could_not_read_level"
                /\ Attempts(PROGRESS, kind) = Attempts(iterStart, kind) + 1
                /\ Rounds(PROGRESS) = Rounds(iterStart) + 1
                /\ PROGRESS.vocab = iterStart.vocab)
        /\ kind \in Modes

\* A vocabulary round with the feedback "gut": total grows, no bucket does.
C6_Witness ==
    /\ RoundCompleted /\ kind = "vocab" /\ pc = "GeneratingTask"
    /\ feedback = <<"g", "u", "t">>
    /\ out = "could_not_read_score"
    /\ PROGRESS.vocab = [total |-> 1, correct |-> 0, partial |-> 0, incorrect |-> 0]

\* C7 as stated: a line read at the answer prompt that is not an exit word, the
\* empty line included, takes the loop to Evaluating, and the evaluation request
\* carries that line as read, unmodified.
C7_AnswerSentVerbatim ==
    [][ /\ (pc = "AwaitingUserAnswer" /\ lower(strip(stdin'.text)) \notin ExitWords =>
                pc' = "Evaluating")
        /\ (pc = "Evaluating" =>
                /\ lastRequest'.call = "eval"
                /\ AnswerOf(lastRequest') = stdin.text) ]_vars

\* C7 as amended: a line read at the answer prompt whose stripped, lower-cased
\* form is not an exit word, the empty line included, takes the loop to
\* Evaluating, and the evaluation request carries that line without its leading
\* and trailing whitespace, otherwise unmodified.
C7_AnswerSentStripped ==
    [][ /\ (pc = "AwaitingUserAnswer" /\ lower(strip(stdin'.text)) \notin ExitWords =>
                /\ pc' = "Evaluating"
                /\ user_answer' = strip(stdin'.text))
        /\ (pc = "Evaluating" =>
                /\ lastRequest'.call = "eval"
                /\ AnswerOf(lastRequest') = strip(stdin.text)) ]_vars

\* The line " aB " was evaluated as "aB".
C7_Witness ==
    /\ RoundCompleted
    /\ stdin = [prompt |-> "answer", text |-> <<" ", "a", "B", " ">>]
    /\ AnswerOf(lastRequest) = <<"a", "B">>

\* C8: no text segment of any oracle request (persona preamble, system
\* instructions, user message) contains the level name A0.
C8_NoRequestNamesA0 ==
    \A segment \in {lastRequest.persona, lastRequest.system, lastRequest.user} :
        \A i \in 1..Len(segment) : ~Contains(segment[i].txt, A0)

\* Beside C8: the level the program puts into a request is never A0 (a learner
\* who selects A0 is served with A1); the A0 of C8 is SYSTEM_PROMPT's own.
LevelSlotsNormalized ==
    \A segment \in {lastRequest.persona, lastRequest.system, lastRequest.user} :
        \A i \in 1..Len(segment) :
            segment[i].slot = "level" =>
                /\ segment[i].txt # A0
                /\ (pc \in {"AwaitingUserAnswer", "Evaluating"} =>
                        segment[i].txt = (IF kind = "vocab" THEN mapped_level ELSE level))

\* C9: normalize_level maps A0 to A1, returns A1, A2, B1, B2 and C1 unchanged,
\* and never returns A0.
C9_NormalizeLevel ==
    fn.name = "normalize_level" =>
        /\ (fn.arg = A0 => fn.res = Some(A1))
        /\ (fn.arg \in {A1, A2, B1, B2, C1} => fn.res = Some(fn.arg))
        /\ fn.res # Some(A0)

\* normalize_level was applied to A0.
C9_Witness ==
    fn = Applied("normalize_level", A0, A1)

\* C10: a line at a level prompt that names no accepted level (A0, A1, A2, B1,
\* B2, C1 in vocab_mode, B2, C1 in exam_mode; the line is read without its
\* surrounding whitespace and in any letter case) does not end the mode: the
\* level is B2, the warning is printed and the mode goes on to its next prompt.
C10_UnknownLevelFallsBackToB2 ==
    /\ (stdin.prompt = "vocab_level"
            /\ upper(strip(stdin.text)) \notin {A0, A1, A2, B1, B2, C1} =>
                /\ pc = "AwaitingDirection" /\ kind = "vocab"
                /\ level = B2 /\ mapped_level = B2
                /\ out = "unknown_level")
    /\ (stdin.prompt = "exam_level"
            /\ upper(strip(stdin.text)) \notin {B2, C1} =>
                /\ pc = "ExamMenu" /\ kind = "exam"
                /\ level = B2
                /\ out = "unknown_level")

\* C2 was typed at the vocabulary trainer's level prompt.
C10_Witness ==
    /\ stdin = [prompt |-> "vocab_level", text |-> <<"C", "2">>]
    /\ level = B2 /\ pc = "AwaitingDirection" /\ out = "unknown_level"

\* The places of a practice loop.
LoopPcs == {"GeneratingTask", "AwaitingUserAnswer", "Evaluating"}

\* A request with its slots emptied: the prompt text it was built from.
Template(request) ==
    LET Blank(items) == [i \in DOMAIN items |-> [items[i] EXCEPT !.txt = <<>>]]
    IN  [call |-> request.call, system |-> Blank(request.system),
         user |-> Blank(request.user)]

\* The level slots of a request.
LevelSlots(request) ==
    {request.system[i].txt : i \in {j \in DOMAIN request.system :
                                        request.system[j].slot = "level"}}
    \cup {request.user[i].txt : i \in {j \in DOMAIN request.user :
                                        request.user[j].slot = "level"}}

\* C11: within one run of vocab_mode the level and the direction chosen at
\* entry stay as they are in every iteration: no step of the loop reads a level
\* or a direction again or goes back to either prompt, and every task request
\* and every evaluation request of the run is built from the prompt of the
\* chosen direction (1: German->English, any other: English->German), its level
\* slots holding the chosen, mapped level.
C11_DirectionAndLevelFixed ==
    [][ (kind = "vocab" /\ pc \in LoopPcs) =>
          /\ pc' \notin {"AwaitingLevelSelection", "AwaitingDirection"}
          /\ stdin' # stdin => stdin'.prompt = "answer"
          /\ kind' = "vocab" =>
                /\ direction' = direction
                /\ level' = level
                /\ mapped_level' = mapped_level
          /\ pc = "GeneratingTask" =>
                /\ Template(lastRequest') =
                      Template(IF direction = <<"1">>
                               THEN generate_de_to_en_task(<<>>)
                               ELSE generate_en_to_de_task(<<>>))
                /\ LevelSlots(lastRequest') = {mapped_level}
          /\ pc = "Evaluating" =>
                Template(lastRequest') =
                   Template(IF direction = <<"1">>
                            THEN evaluate_de_to_en(<<>>, <<>>, <<>>)
                            ELSE evaluate_en_to_de(<<>>, <<>>)) ]_vars

\* The second iteration of an English->German run begins: the round before it
\* was evaluated with the English->German prompt.
C11_Witness ==
    /\ pc = "GeneratingTask" /\ kind = "vocab" /\ direction = <<"2">>
    /\ RoundCompleted
    /\ Template(lastRequest) = Template(evaluate_en_to_de(<<>>, <<>>))
    /\ PROGRESS.vocab.total >= 1

\* C12: a practice loop (vocabulary, listening, reading, writing, speaking) is
\* left in two ways only: an exit word typed at the answer prompt, which gives
\* control back to a menu, or a call of the oracle that raises.  A step that
\* completes a round, whatever its feedback holds (a score, a level, neither),
\* and however many rounds went before it, begins the next iteration.
C12_LoopLeftOnlyByExitWordOrFailure ==
    [][ (kind \in Modes /\ pc \in LoopPcs /\ ~(kind' = kind /\ pc' \in LoopPcs)) =>
          \/ /\ pc = "AwaitingUserAnswer"
             /\ stdin'.prompt = "answer"
             /\ lower(strip(stdin'.text)) \in ExitWords
             /\ pc' \in {"MainMenu", "ExamMenu"}
             /\ oracleError' = "none"
          \/ /\ pc \in {"GeneratingTask", "Evaluating"}
             /\ pc' = "Crashed"
             /\ oracleError' # "none" ]_vars

\* The speaking loop begins a third iteration: two rounds were completed, the
\* last of them with a level estimate read from the feedback.
C12_Witness ==
    /\ pc = "GeneratingTask" /\ kind = "speaking"
    /\ RoundCompleted
    /\ PROGRESS.exam.speaking_attempts >= 2
    /\ out = "estimated_speaking_level"

\* The characters of a value: letters, digits and the underscore.
WordChars ==
    {LowerLetters[i] : i \in DOMAIN LowerLetters}
    \cup {UpperLetters[i] : i \in DOMAIN UpperLetters} \cup Digits \cup {"_"}

\* The token at index j: the characters of a value from j on.
TokenAt(text, j) ==
    LET rest == {k \in j..Len(text) : text[k] \notin WordChars}
    IN  SubSeq(text, j, (IF rest = {} THEN Len(text) + 1 ELSE Min(rest)) - 1)

\* text holds the tag with the token v as its value, whitespace between them or
\* none.
HasTagValue(text, tag, v) ==
    \E i \in 1..Len(text) :
        StartsAt(text, i, tag) /\ TokenAt(text, SkipWs(text, i + Len(tag))) = v

\* C13: parse_vocab_score returns correct, partially_correct or incorrect
\* exactly when the text holds a SCORE: tag whose value is that literal, and
\* None for every other text, a SCORE: tag followed by a token that is none of
\* the three literals among them.
C13_VocabScoreOnlyOfLiterals ==
    fn.name = "parse_vocab_score" =>
        LET found == {v \in {sCorrect, sPartiallyCorrect, sIncorrect} :
                         HasTagValue(fn.arg, sSCORE, v)}
        IN  IF found = {} THEN fn.res = None
            ELSE fn.res.some /\ fn.res.value \in found

\* The indices at which a line of text begins.
LineStarts(text) == {1} \cup {i + 1 : i \in {j \in 1..Len(text) : text[j] = "\n"}}

\* The index behind the blanks and tabs that begin the line at s.
Indent(text, s) ==
    LET rest == {j \in s..Len(text) : text[j] \notin {" ", "\t"}}
    IN  IF rest = {} THEN Len(text) + 1 ELSE Min(rest)

\* The tag stands at index i in some letter case.
TagAt(text, i, tag) ==
    /\ i + Len(tag) - 1 <= Len(text)
    /\ upper(SubSeq(text, i, i + Len(tag) - 1)) = tag

\* The value of the line at s if it has the form TAG: value: what follows the tag
\* up to the end of the line, trimmed.
LineValue(text, s, tag) ==
    LET i == Indent(text, s)
    IN  strip(SubSeq(text, i + Len(tag), LineEnd(text, i) - 1))

\* The lines of the form TAG: value, the tag in any letter case, the value not
\* empty.
TagLines(text, tag) ==
    {s \in LineStarts(text) :
        TagAt(text, Indent(text, s), tag) /\ LineValue(text, s, tag) # <<>>}

\* C14: the extraction of a tagged field (here WORD, SENTENCE, HINT) finds a
\* line TAG: value with the tag in any letter case and behind any leading
\* whitespace, wherever in the text the line stands, and returns the rest of
\* that line trimmed; it returns nothing where the text holds no such tag.
\* Read in the code's favour: the first conjunct speaks of texts in which the
\* tag occurs in that one line only, the second of texts in which the tag
\* occurs nowhere in any letter case.
C14_TagFoundInAnyLetterCase ==
    fn.name = "ExtractField" =>
        LET lines == TagLines(fn.arg, fn.tag)
            occurrences == {i \in 1..Len(fn.arg) : TagAt(fn.arg, i, fn.tag)}
        IN  /\ (Cardinality(lines) = 1 /\ Cardinality(occurrences) = 1) =>
                   \A s \in lines : fn.res = Some(LineValue(fn.arg, s, fn.tag))
            /\ occurrences = {} => fn.res = Some(<<>>)

\* t is a non-negative integer in decimal digits.
IsNumber(t) == t # <<>> /\ \A k \in 1..Len(t) : t[k] \in Digits

\* The fractions X/Y that text holds behind a SCORE: tag, whitespace between the
\* tag and X or none: X and Y non-negative integers, Y with all its digits.
ScoreFractions(text) ==
    { SubSeq(text, j, m) : <<j, m>> \in
        { p \in (1..Len(text)) \X (1..Len(text)) :
            /\ \E i \in 1..p[1] :
                  /\ StartsAt(text, i, sSCORE)
                  /\ i + Len(sSCORE) <= p[1]
                  /\ \A k \in (i + Len(sSCORE))..(p[1] - 1) : text[k] \in Whitespace
            /\ \E k \in (p[1] + 1)..(p[2] - 1) :
                  /\ text[k] = "/"
                  /\ IsNumber(SubSeq(text, p[1], k - 1))
                  /\ IsNumber(SubSeq(text, k + 1, p[2]))
            /\ (p[2] = Len(text) \/ text[p[2] + 1] \notin Digits) } }

\* C15: parse_exam_score returns X and Y (as the text X/Y) for every text that
\* holds SCORE: X/Y with X and Y non-negative integers, whatever their values:
\* a score above its maximum (7/3) and a maximum of 0 (3/0) are returned as they
\* stand; it returns None for a text that holds no such fraction.
C15_ExamScoreAsWritten ==
    fn.name = "parse_exam_score" =>
        IF ScoreFractions(fn.arg) = {} THEN fn.res = None
        ELSE fn.res.some /\ fn.res.value \in ScoreFractions(fn.arg)

\* parse_exam_score returned 7/3 for a feedback that ends with SCORE: 7/3.
C15_Witness ==
    /\ fn.name = "parse_exam_score"
    /\ fn.arg = <<"o", "k", "\n">> \o sSCORE \o <<" ", "7", "/", "3">>
    /\ fn.res = Some(<<"7", "/", "3">>)

\* C16: parse_exam_level returns B1, B2 or C1 exactly when the text holds a
\* LEVEL: tag whose value is that literal, and None for every other text: for
\* LEVEL:A2, for a text without the tag, for a tag followed by another token.
C16_ExamLevelOnlyOfLiterals ==
    fn.name = "parse_exam_level" =>
        LET found == {v \in {B1, B2, C1} : HasTagValue(fn.arg, sLEVEL, v)}
        IN  IF found = {} THEN fn.res = None
            ELSE fn.res.some /\ fn.res.value \in found

\* C17: the report of the session statistics reads and never writes: the step
\* that shows the progress leaves every counter as it was, what it presents are
\* the eight counters as they stand, and a report that follows another with no
\* round completed between the two presents the same eight values.
C17_ReportReadOnly ==
    [][ (pc = "MainMenu" /\ stdin'.prompt = "main_menu" /\ strip(stdin'.text) = <<"3">>) =>
          /\ PROGRESS' = PROGRESS
          /\ report'.shown
          /\ report'.values = PROGRESS
          /\ report.shown => report'.values = report.values ]_vars

\* The progress was shown after a vocabulary round and a listening round.
C17_Witness ==
    /\ pc = "MainMenu" /\ out = "session_progress"
    /\ report.shown
    /\ report.values.vocab.total = 1
    /\ report.values.exam.listening_attempts = 1

\* C18: with no API key in the environment the program fails at startup, when
\* the client is made: it never shows a menu, enters no mode (vocabulary, exam,
\* progress), reads no input and gives the oracle no request.
C18_NoKeyNoMode ==
    api_key = NoKey =>
        /\ pc \in {"Startup", "StartupFailed"}
        /\ kind = "none"
        /\ stdin.prompt = "none"
        /\ lastRequest = NoRequest /\ oracleError = "none"
        /\ ~report.shown
        /\ PROGRESS = ZeroProgress
        /\ pc = "StartupFailed" => out = "traceback"

\* The startup failed for want of a key.
C18_Witness == api_key = NoKey /\ pc = "StartupFailed" /\ out = "traceback"

\* C19: in every practice loop an iteration runs in one order.  The task request
\* comes first and no line is read before it returned; the answer prompt
\* follows, and it asks nothing of the oracle and records nothing; the
\* evaluation request is made only for an answer that is no exit word, and it
\* carries the answer of this iteration; the counters change only in the step
\* in which the evaluation request returned (the feedback is shown and recorded
\* in that same step), after which the next iteration begins with its task
\* request.  The level is chosen before the loop is entered and no step of the
\* loop chooses it again.
C19_IterationOrder ==
    [][ /\ (kind \in Modes /\ pc = "GeneratingTask") =>
              /\ pc' \in {"AwaitingUserAnswer", "Crashed"}
              /\ lastRequest'.call = "task"
              /\ stdin' = stdin
              /\ PROGRESS' = PROGRESS
        /\ (kind \in Modes /\ pc = "AwaitingUserAnswer") =>
              /\ pc' \in {"Evaluating", "MainMenu", "ExamMenu"}
              /\ stdin'.prompt = "answer"
              /\ pc' = "Evaluating" <=> lower(strip(stdin'.text)) \notin ExitWords
              /\ pc' = "Evaluating" => user_answer' = strip(stdin'.text)
              /\ lastRequest' = lastRequest
              /\ PROGRESS' = PROGRESS
        /\ (kind \in Modes /\ pc = "Evaluating") =>
              /\ pc' \in {"GeneratingTask", "Crashed"}
              /\ lastRequest'.call = "eval"
              /\ AnswerOf(lastRequest') = user_answer
              /\ stdin' = stdin
              /\ pc' = "GeneratingTask" <=> oracleError' = "none"
              /\ pc' = "GeneratingTask" => Rounds(PROGRESS') = Rounds(PROGRESS) + 1
              /\ pc' = "Crashed" => PROGRESS' = PROGRESS
        /\ PROGRESS' # PROGRESS => (kind \in Modes /\ pc = "Evaluating")
        /\ pc' = "GeneratingTask" =>
              /\ pc \in {"AwaitingDirection", "ExamMenu", "Evaluating"}
              /\ pc = "AwaitingDirection" => kind = "vocab" /\ level \in VocabLevels
              /\ pc = "ExamMenu" => kind = "exam" /\ level \in ExamLevels
              /\ level' = level
        /\ (kind \in Modes /\ pc \in LoopPcs /\ pc' \in LoopPcs) =>
              /\ level' = level
              /\ kind' = kind ]_vars

\* A reading round was completed: the answer read at the prompt went out with
\* the evaluation request, the attempt was counted and the next iteration
\* begins.
C19_Witness ==
    /\ pc = "GeneratingTask" /\ kind = "reading"
    /\ RoundCompleted
    /\ stdin.prompt = "answer"
    /\ AnswerOf(lastRequest) = strip(stdin.text)
    /\ PROGRESS.exam.reading_attempts = 1

\* C20: an exit word at the answer prompt gives control to the menu the loop
\* was entered from: vocab_mode returns to the main menu; listening, reading,
\* writing and speaking return to the exam menu, not to the main menu, with the
\* exam level as it was chosen on entering exam_mode; the exam menu never asks
\* for the level again, and the level stays until exam_mode is left.
C20_ExitWordReturnsToParentMenu ==
    [][ /\ (kind \in Modes /\ pc = "AwaitingUserAnswer"
              /\ lower(strip(stdin'.text)) \in ExitWords) =>
              /\ kind = "vocab" =>
                    pc' = "MainMenu" /\ kind' = "none" /\ out' = "returning_to_main_menu"
              /\ kind \in ExamKinds =>
                    /\ pc' = "ExamMenu" /\ kind' = "exam"
                    /\ out' = "returning_to_exam_menu"
                    /\ level' = level /\ level \in ExamLevels
        /\ pc = "ExamMenu" =>
              /\ pc' \in {"ExamMenu", "GeneratingTask", "MainMenu"}
              /\ stdin'.prompt = "exam_menu"
              /\ pc' # "MainMenu" => level' = level ]_vars

\* The writing loop was left by Q after a round at level C1: the exam menu is
\* shown, the level still C1.
C20_Witness ==
    /\ pc = "ExamMenu" /\ kind = "exam"
    /\ out = "returning_to_exam_menu"
    /\ stdin = [prompt |-> "answer", text |-> <<"Q">>]
    /\ level = C1
    /\ PROGRESS.exam.writing_attempts = 1

\* The eight counters of P.
Counters(P) ==
    << P.vocab.total, P.vocab.correct, P.vocab.partial, P.vocab.incorrect,
       P.exam.listening_attempts, P.exam.reading_attempts,
       P.exam.writing_attempts, P.exam.speaking_attempts >>

\* C21: the session statistics change in one kind of step only, the one in which
\* an evaluation request returned and a round is completed.  Every other step
\* (a menu choice, a level or direction selection, the entry of a mode, a task
\* request, an answer read, an exit word, a progress report, a failing call)
\* leaves all eight counters as they were, and no step lowers a counter or sets
\* it back to 0.
C21_CountersOnlyGrowByRounds ==
    [][ /\ \A i \in 1..8 : Counters(PROGRESS')[i] >= Counters(PROGRESS)[i]
        /\ PROGRESS' # PROGRESS =>
              /\ kind \in Modes /\ pc = "Evaluating"
              /\ lastRequest'.call = "eval" /\ oracleError' = "none"
              /\ Rounds(PROGRESS') = Rounds(PROGRESS) + 1 ]_vars

\* Back at the main menu after a vocabulary round and, in a later run of
\* exam_mode, a speaking round: both are still counted.
C21_Witness ==
    /\ pc = "MainMenu" /\ out = "back_to_main_menu"
    /\ PROGRESS.vocab.total = 1
    /\ PROGRESS.exam.speaking_attempts = 1

\* The three buckets of P together.
Bucketed(P) == P.vocab.correct + P.vocab.partial + P.vocab.incorrect

\* C22: in every state correct + partial + incorrect is at most total, and what
\* total has above that sum is the number of completed vocabulary rounds whose
\* feedback gave no score; a step increments one of the three buckets at most,
\* and that by one.
C22_BucketsWithinTotal ==
    [][ /\ Bucketed(PROGRESS) <= PROGRESS.vocab.total
        /\ PROGRESS.vocab.total - Bucketed(PROGRESS) = unscored
        /\ Bucketed(PROGRESS') <= PROGRESS'.vocab.total
        /\ PROGRESS'.vocab.total - Bucketed(PROGRESS') = unscored'
        /\ Bucketed(PROGRESS') \in {Bucketed(PROGRESS), Bucketed(PROGRESS) + 1}
        /\ PROGRESS'.vocab.correct >= PROGRESS.vocab.correct
        /\ PROGRESS'.vocab.partial >= PROGRESS.vocab.partial
        /\ PROGRESS'.vocab.incorrect >= PROGRESS.vocab.incorrect ]_vars

\* Two vocabulary rounds were completed, one scored correct, one with a feedback
\* that gave no score.
C22_Witness ==
    /\ PROGRESS.vocab = [total |-> 2, correct |-> 1, partial |-> 0, incorrect |-> 0]
    /\ unscored = 1
    /\ kind = "vocab" /\ pc = "GeneratingTask"

\* The counter of completed rounds of a practice loop.
CoarseCounter(P, k) == IF k = "vocab" THEN P.vocab.total ELSE Attempts(P, k)

\* C23: the oracle is asked once for each task and once for each evaluation and
\* never a second time for either: a step of a practice loop makes one request at
\* most, the task step and the evaluation step make exactly one, the answer
\* prompt none.  When the loop is left by an exit word after n completed
\* iterations it has made 2n + 1 requests (n + 1 for tasks, n for evaluations)
\* and its counter of rounds stands n above its value on entry; an exit word
\* at the first answer prompt has cost the one task request.
C23_RequestsCounted ==
    [][ (kind \in Modes /\ pc \in LoopPcs) =>
          /\ pc \in {"GeneratingTask", "Evaluating"} =>
                /\ run'.requests = run.requests + 1
                /\ lastRequest'.call = (IF pc = "Evaluating" THEN "eval" ELSE "task")
          /\ pc = "AwaitingUserAnswer" => run' = run /\ lastRequest' = lastRequest
          /\ pc' = "GeneratingTask" => run'.requests = 2 * run'.rounds
          /\ pc' \in {"AwaitingUserAnswer", "Evaluating"} =>
                run'.requests = 2 * run'.rounds + 1
          /\ CoarseCounter(PROGRESS', kind) = run'.start + run'.rounds
          /\ pc' \in {"MainMenu", "ExamMenu"} =>
                /\ run'.requests = 2 * run'.rounds + 1
                /\ CoarseCounter(PROGRESS', kind) - run'.start = run'.rounds ]_vars

\* vocab_mode was left by an exit word after two completed iterations: five
\* requests were made.
C23_Witness ==
    /\ pc = "MainMenu" /\ out = "returning_to_main_menu"
    /\ run = [requests |-> 5, rounds |-> 2, start |-> 0]
    /\ PROGRESS.vocab.total = 2

\* The characters from index j up to the next whitespace.
WordAt(text, j) ==
    LET rest == {k \in j..Len(text) : text[k] \in Whitespace}
    IN  SubSeq(text, j, (IF rest = {} THEN Len(text) + 1 ELSE Min(rest)) - 1)

\* The value that follows the tag at index i.
ValueOfTagAt(text, i, tag) == WordAt(text, SkipWs(text, i + Len(tag)))

\* t is a fraction X/Y of two non-negative integers.
IsFraction(t) ==
    \E k \in 1..Len(t) :
        t[k] = "/" /\ IsNumber(SubSeq(t, 1, k - 1)) /\ IsNumber(SubSeq(t, k + 1, Len(t)))

\* The cases of C24: the function applied, the tag it looks for, the values
\* it accepts.
TagOf(name) == IF name = "parse_exam_level" THEN sLEVEL ELSE sSCORE
Accepts(name, v) ==
    CASE name \in {"parse_vocab_score", "vocab_mode"} ->
             v \in {sCorrect, sPartiallyCorrect, sIncorrect}
      [] name = "parse_exam_score" -> IsFraction(v)
      [] name = "parse_exam_level" -> v \in {B1, B2, C1}
      [] OTHER -> FALSE

\* The text holds the tag more than once, each time with an accepted value, the
\* first and the last of them different.
SeveralValues(name, text) ==
    LET at == {i \in 1..Len(text) : StartsAt(text, i, TagOf(name))}
    IN  /\ Cardinality(at) >= 2
        /\ \A i \in at : Accepts(name, ValueOfTagAt(text, i, TagOf(name)))
        /\ ValueOfTagAt(text, Min(at), TagOf(name)) # ValueOfTagAt(text, Max(at), TagOf(name))

FirstValue(name, text) ==
    ValueOfTagAt(text, Min({i \in 1..Len(text) : StartsAt(text, i, TagOf(name))}),
                 TagOf(name))

\* C24: of several SCORE: or LEVEL: tags with different accepted values in one
\* feedback, parse_vocab_score, parse_exam_score and parse_exam_level return the
\* value of the first in the text, not that of the last; the bucket a vocabulary
\* round is recorded in is therefore the one of the first SCORE: tag.
C24_FirstTagWins ==
    (fn.name \in {"parse_vocab_score", "parse_exam_score", "parse_exam_level", "vocab_mode"}
       /\ SeveralValues(fn.name, fn.arg)) =>
        /\ fn.res = Some(FirstValue(fn.name, fn.arg))
        /\ fn.name = "vocab_mode" =>
              LET first == FirstValue(fn.name, fn.arg) IN
              /\ PROGRESS.vocab.total = 1
              /\ PROGRESS.vocab.correct = (IF first = sCorrect THEN 1 ELSE 0)
              /\ PROGRESS.vocab.partial = (IF first = sPartiallyCorrect THEN 1 ELSE 0)
              /\ PROGRESS.vocab.incorrect = (IF first = sIncorrect THEN 1 ELSE 0)

\* A vocabulary round whose feedback says incorrect and then correct was
\* recorded as incorrect.
C24_Witness ==
    /\ fn.name = "vocab_mode"
    /\ fn.arg = sSCORE \o SP \o sIncorrect \o NL \o sSCORE \o SP \o sCorrect
    /\ fn.res = Some(sIncorrect)
    /\ PROGRESS.vocab = [total |-> 1, correct |-> 0, partial |-> 0, incorrect |-> 1]

\* The choices main's loop and exam_mode's loop dispatch on.
MainChoices == { <<"1">>, <<"2">>, <<"3">>, <<"0">> }
ExamChoices == { <<"1">>, <<"2">>, <<"3">>, <<"4">>, <<"0">> }

\* C25: a choice the main menu or the exam menu does not know ends nothing:
\* the same menu is shown again, with every counter and the selected exam
\* level as they were and no request sent to the oracle; a direction choice
\* vocab_mode does not know becomes DE->EN and the mode goes on to its first
\* task, which is then asked for in that direction.
C25_UnknownChoiceKeepsMenu ==
    [][ /\ (pc = "MainMenu" /\ strip(stdin'.text) \notin MainChoices) =>
              /\ pc' = "MainMenu" /\ out' = "invalid_input"
              /\ stdin'.prompt = "main_menu"
              /\ PROGRESS' = PROGRESS /\ level' = level
              /\ lastRequest' = lastRequest /\ oracleError' = oracleError
              /\ run'.requests = 0
        /\ (pc = "ExamMenu" /\ strip(stdin'.text) \notin ExamChoices) =>
              /\ pc' = "ExamMenu" /\ out' = "invalid_input"
              /\ stdin'.prompt = "exam_menu"
              /\ PROGRESS' = PROGRESS /\ level' = level /\ level \in ExamLevels
              /\ lastRequest' = lastRequest /\ oracleError' = oracleError
              /\ run'.requests = 0
        /\ (pc = "AwaitingDirection" /\ strip(stdin'.text) \notin {<<"1">>, <<"2">>}) =>
              /\ direction' = <<"1">> /\ out' = "unknown_choice"
              /\ pc' = "GeneratingTask" /\ kind' = "vocab"
              /\ PROGRESS' = PROGRESS /\ lastRequest' = lastRequest
        /\ (pc = "GeneratingTask" /\ kind = "vocab" /\ direction = <<"1">>
              /\ pc' = "AwaitingUserAnswer") =>
              lastRequest' = generate_de_to_en_task(mapped_level)
      ]_vars

\* After a completed round the exam menu has just turned down the choice 9.
C25_Witness ==
    /\ pc = "ExamMenu" /\ out = "invalid_input"
    /\ stdin = [prompt |-> "exam_menu", text |-> <<"9">>]
    /\ level = C1
    /\ PROGRESS.exam.writing_attempts = 1

\* The stored task and feedback of each mode of the web front end, and the
\* mode whose widgets the script draws.
StoredTask(s, m) == IF m = "vocab" THEN s.vocab_task ELSE s.exam_task
StoredFeedback(s, m) == IF m = "vocab" THEN s.vocab_feedback ELSE s.exam_feedback
Drawn == IF mode = "Vocabulary practice (A1-C1)" THEN "vocab" ELSE "exam"

\* C26: in the web front end, in each mode, a stored feedback that is not
\* empty stands beside a stored task that is not empty and came from the
\* evaluation of just that task; a new task empties the mode's feedback, a
\* feedback is only stored while a task is, and no event in one mode changes
\* what the other mode has stored.
C26_FeedbackBelongsToStoredTask ==
    [][ \A m \in {"vocab", "exam"} :
          /\ StoredFeedback(session_state', m) # <<>> =>
                /\ StoredTask(session_state', m) # <<>>
                /\ evaluated'[m].call # "none"
                /\ evaluated'[m].task = StoredTask(session_state', m)
          /\ (m = Drawn /\ page' = "new_task") =>
                StoredFeedback(session_state', m) = <<>>
          /\ (m = Drawn /\ page' = "feedback") =>
                /\ StoredTask(session_state, m) # <<>>
                /\ StoredTask(session_state', m) = StoredTask(session_state, m)
                /\ evaluated'[m].task = StoredTask(session_state, m)
          /\ m # Drawn =>
                /\ StoredTask(session_state', m) = StoredTask(session_state, m)
                /\ StoredFeedback(session_state', m) = StoredFeedback(session_state, m)
          /\ page' \in {"mode", "exception"} => session_state' = session_state
      ]_vars

\* The vocabulary feedback of an earlier visit is still stored while exam mode
\* has just replaced an evaluated task by a new one.
C26_Witness ==
    /\ mode = "Exam practice (B2/C1)" /\ page = "new_task"
    /\ session_state.vocab_task = <<"a", "b">>
    /\ session_state.vocab_feedback = <<"g", "u", "t">>
    /\ evaluated.vocab = AppRequest("check", B2, <<"a", "b">>, <<"x", " ">>)
    /\ session_state.exam_task = <<"c">>
    /\ session_state.exam_feedback = <<>>

=============================================================================
